---- MODULE Spec2Model ----
(***************************************************************************)
(* A model of HPM.cpp: the HPM object's resource lifecycle (constructor,   *)
(* configuration setters, initialization routines, release routines and    *)
(* destructor), the .dmb depth/normal container, image and camera          *)
(* rescaling, the host side of the joint bilateral upsampler, support      *)
(* point selection, plane normalization, the planar prior buffers, the     *)
(* point cloud export and its parallel loop, and the schedule of the       *)
(* propagation half-passes.                                                *)
(***************************************************************************)
EXTENDS Integers, Sequences, FiniteSets, TLC

VARIABLES
    params,      \* HPM::params: the mode flags and the upsampling record
    num_images,  \* HPM::num_images (-1: never assigned)
    images,      \* HPM::images: the size of each loaded image
    cameras,     \* HPM::cameras
    depths,      \* HPM::depths: the size of each depth map
    ptr,         \* every pointer / handle member: which allocation it holds
    allocs,      \* per member, the allocations made through it: release calls so far
    wild,        \* members released while they never held an allocation
    faults,      \* out-of-bounds and empty-map accesses of the last initialization
    cuda_failed, \* a CUDA call of a setup routine returned an error
    exited,      \* the process ended with exit(EXIT_FAILURE)
    destroyed,   \* ~HPM has run
    calls,       \* allocating and releasing routines run on this object so far
    released,    \* the release routines run since the last allocating routine
    requested,   \* the inputs the last InuputInitialization was asked to load
    loaded,      \* the inputs whose image and camera file were present
    dmb,         \* one .dmb file from its writing to its reading
    rescale,     \* one image and camera before and after a rescaling
    jbu,         \* one call of an upsampling function: its arguments and its results
    support,     \* one call of GetSupportPoints_Classify_Check: its fields and its result
    plane,       \* the calls of GetPriorPlaneParams / GetPriorPlaneParams_factor: solver result and returned plane
    prior,       \* one call of CudaPlanarPriorInitialization / ReloadPlanarPriorInitialization: the prior buffers
    ply,         \* one call of ExportPointCloud / StoreColorPlyFileBinaryPointCloud: the points and the file
    board,       \* the hypothesis field during the phases of the propagation iterations
    omp          \* the parallel loop of one export: the iterations, the threads, the critical section, the file

hpmVars == <<params, num_images, images, cameras, depths, ptr, allocs, wild,
             faults, cuda_failed, exited, destroyed, calls, released, requested,
             loaded>>

\* The state of one call of the functions that change no member of HPM
fnVars == <<dmb, rescale, jbu, support, plane, prior, ply, board, omp>>

vars == <<hpmVars, fnVars>>

-----------------------------------------------------------------------------
(* Bounds of the model *)

\* source images per problem
MaxSrc == 1
\* calls of allocating and releasing routines on one object
MaxCalls == 3

MaxImages == MaxSrc + 1

-----------------------------------------------------------------------------
(* Pointer and handle members of HPM *)

HostFields == {"plane_hypotheses_host", "costs_host", "scaled_plane_hypotheses_host",
               "pre_costs_host", "prior_planes_host", "plane_masks_host",
               "texture_host", "confidences_host", "Canny_host"}

DeviceFields == {"texture_objects_cuda", "cameras_cuda", "plane_hypotheses_cuda",
                 "costs_cuda", "pre_costs_cuda", "rand_states_cuda",
                 "selected_views_cuda", "depths_cuda", "texture_depths_cuda",
                 "scaled_plane_hypotheses_cuda", "prior_planes_cuda",
                 "plane_masks_cuda", "Canny_cuda", "texture_cuda", "confidences_cuda"}

\* cuArray[i], texture_objects_host.images[i], cuDepthArray[i], texture_depths_host.images[i]
ArrayFields == {"cuArray", "texture_objects_host", "cuDepthArray", "texture_depths_host"}

Fields == ((HostFields \cup DeviceFields) \X {0}) \cup (ArrayFields \X (0 .. MaxImages - 1))

F(name) == <<name, 0>>

\* A transfer (cudaMemcpy, cudaMemcpy2DToArray) rather than an allocation.
Transfer == <<"cudaMemcpy", 0>>
NoFail == <<"none", 0>>

-----------------------------------------------------------------------------
(* Allocation and release.  A store is the record [ptr, allocs, wild, failed]   *)
(* threaded through the statements of one routine.  ptr[f] = 0 means member f  *)
(* never held an allocation; otherwise it is the index in allocs[f] of the      *)
(* allocation it holds, and allocs[f][k] counts the release calls made on the   *)
(* k-th allocation made through f.  No release resets ptr[f]: the code never    *)
(* nulls a pointer after freeing it.                                            *)

Store == [ptr |-> ptr, allocs |-> allocs, wild |-> wild, failed |-> cuda_failed]

\* new T[n]
New(s, f) ==
    [s EXCEPT !.allocs[f] = Append(@, 0), !.ptr[f] = Len(s.allocs[f]) + 1]

\* cudaMalloc / cudaMallocArray / cudaCreateTextureObject, result discarded:
\* on failure the member keeps what it held and the routine goes on.
cudaMalloc(s, f, failAt) ==
    IF f = failAt THEN [s EXCEPT !.failed = TRUE] ELSE New(s, f)

\* cudaMemcpy / cudaMemcpy2DToArray, result discarded.
cudaMemcpy(s, failAt) ==
    IF failAt = Transfer THEN [s EXCEPT !.failed = TRUE] ELSE s

\* delete[] p / cudaFree(p) / cudaFreeArray(p) / cudaDestroyTextureObject(p)
cudaFree(s, f) ==
    IF s.ptr[f] = 0
    THEN [s EXCEPT !.wild = @ \cup {f}]
    ELSE [s EXCEPT !.allocs[f][s.ptr[f]] = @ + 1]

RECURSIVE FreeAll(_, _)
FreeAll(s, fs) ==
    IF fs = <<>> THEN s ELSE FreeAll(cudaFree(s, Head(fs)), Tail(fs))

RECURSIVE MallocAll(_, _, _)
MallocAll(s, fs, failAt) ==
    IF fs = <<>> THEN s ELSE MallocAll(cudaMalloc(s, Head(fs), failAt), Tail(fs), failAt)

\* for (i = 0; i < n; ++i) { first[i]; second[i]; } as the sequence of members touched
RECURSIVE PerImage(_, _, _)
PerImage(n, first, second) ==
    IF n <= 0 THEN <<>>
    ELSE PerImage(n - 1, first, second) \o <<<<first, n - 1>>, <<second, n - 1>>>>

Names(ns) == [k \in 1 .. Len(ns) |-> F(ns[k])]

Commit(s) ==
    /\ ptr' = s.ptr
    /\ allocs' = s.allocs
    /\ wild' = s.wild
    /\ cuda_failed' = s.failed

-----------------------------------------------------------------------------
(* Configuration setters *)

\* SetGeomConsistencyParams with params.multi_geometry = multi_geometry
SetGeomConsistencyParamsAssigning(multi_geometry) ==
    /\ ~destroyed
    /\ UNCHANGED fnVars
    /\ params' = [params EXCEPT !.geom_consistency = TRUE,
                                !.max_iterations = 2,
                                !.multi_geometry = multi_geometry]
    /\ UNCHANGED <<num_images, images, cameras, depths, ptr, allocs, wild, faults,
                   cuda_failed, exited, destroyed, calls, released, requested, loaded>>

SetGeomConsistencyParams(multi_geometry) ==
    /\ ~destroyed
    /\ UNCHANGED fnVars
    /\ params' = [params EXCEPT !.geom_consistency = TRUE,
                                !.max_iterations = 2,
                                !.multi_geometry = IF multi_geometry THEN TRUE ELSE @]
    /\ UNCHANGED <<num_images, images, cameras, depths, ptr, allocs, wild, faults,
                   cuda_failed, exited, destroyed, calls, released, requested, loaded>>

SetHierarchyParams ==
    /\ ~destroyed
    /\ UNCHANGED fnVars
    /\ params' = [params EXCEPT !.hierarchy = TRUE]
    /\ UNCHANGED <<num_images, images, cameras, depths, ptr, allocs, wild, faults,
                   cuda_failed, exited, destroyed, calls, released, requested, loaded>>

SetPlanarPriorParams ==
    /\ ~destroyed
    /\ UNCHANGED fnVars
    /\ params' = [params EXCEPT !.prior_consistency = TRUE]
    /\ UNCHANGED <<num_images, images, cameras, depths, ptr, allocs, wild, faults,
                   cuda_failed, exited, destroyed, calls, released, requested, loaded>>

SetMandConsistencyParams(flag) ==
    /\ ~destroyed
    /\ UNCHANGED fnVars
    /\ params' = [params EXCEPT !.mand_consistency = flag]
    /\ UNCHANGED <<num_images, images, cameras, depths, ptr, allocs, wild, faults,
                   cuda_failed, exited, destroyed, calls, released, requested, loaded>>

-----------------------------------------------------------------------------
(* Release routines and the destructor *)

CudaPlanarPriorRelease ==
    /\ ~destroyed
    /\ UNCHANGED fnVars
    /\ calls < MaxCalls
    /\ calls' = calls + 1
    /\ released' = released \cup {"CudaPlanarPriorRelease"}
    /\ Commit(FreeAll(Store, Names(<<"prior_planes_cuda", "plane_masks_cuda", "Canny_cuda">>)))
    /\ UNCHANGED <<params, num_images, images, cameras, depths, faults, exited,
                   destroyed, requested, loaded>>

CudaSpaceRelease(geom_consistency) ==
    /\ ~destroyed
    /\ UNCHANGED fnVars
    /\ calls < MaxCalls
    /\ calls' = calls + 1
    /\ released' = released \cup {"CudaSpaceRelease"}
    /\ LET s1 == FreeAll(Store, Names(<<"texture_objects_cuda", "cameras_cuda",
                                        "plane_hypotheses_cuda", "costs_cuda",
                                        "rand_states_cuda", "selected_views_cuda",
                                        "depths_cuda", "texture_cuda">>))
           s2 == IF geom_consistency THEN cudaFree(s1, F("texture_depths_cuda")) ELSE s1
       IN Commit(s2)
    /\ UNCHANGED <<params, num_images, images, cameras, depths, faults, exited,
                   destroyed, requested, loaded>>

ReleaseProblemHostMemory ==
    /\ ~destroyed
    /\ UNCHANGED fnVars
    /\ images' = <<>>
    /\ cameras' = <<>>
    /\ depths' = <<>>
    /\ UNCHANGED <<params, num_images, ptr, allocs, wild, faults, cuda_failed, exited,
                   destroyed, calls, released, requested, loaded>>

\* ~HPM with the loop bound n the destructor reads from num_images
DestructorFrees(s, n) ==
    LET s1 == FreeAll(s, Names(<<"plane_hypotheses_host", "costs_host">>))
        s2 == FreeAll(s1, PerImage(n, "texture_objects_host", "cuArray"))
        s3 == FreeAll(s2, Names(<<"texture_objects_cuda", "cameras_cuda",
                                  "plane_hypotheses_cuda", "costs_cuda", "pre_costs_cuda",
                                  "rand_states_cuda", "selected_views_cuda", "depths_cuda">>))
        s4 == IF params.geom_consistency
              THEN cudaFree(FreeAll(s3, PerImage(n, "texture_depths_host", "cuDepthArray")),
                            F("texture_depths_cuda"))
              ELSE s3
        s5 == IF params.hierarchy
              THEN FreeAll(s4, Names(<<"scaled_plane_hypotheses_host", "pre_costs_host",
                                       "scaled_plane_hypotheses_cuda", "pre_costs_cuda">>))
              ELSE s4
        s6 == IF params.prior_consistency
              THEN FreeAll(s5, Names(<<"prior_planes_host", "plane_masks_host",
                                       "prior_planes_cuda", "plane_masks_cuda">>))
              ELSE s5
    IN s6

\* num_images is assigned only by CudaSpaceInitialization: before that the loop
\* bound is whatever the member holds.
Destructor ==
    /\ ~destroyed
    /\ UNCHANGED fnVars
    /\ destroyed' = TRUE
    /\ \E n \in (IF num_images >= 0 THEN {num_images} ELSE 0 .. MaxImages) :
          Commit(DestructorFrees(Store, n))
    /\ UNCHANGED <<params, num_images, images, cameras, depths, faults, exited, calls,
                   released, requested, loaded>>

-----------------------------------------------------------------------------
(* The .dmb container (readDepthDmb, writeDepthDmb, readNormalDmb,            *)
(* writeNormalDmb).  A file is NoFile or its sequence of bytes.  A map in      *)
(* memory is [rows, cols, channels, data]: data holds rows*cols*channels       *)
(* samples in row-major order, each the four bytes of a float (the file holds  *)
(* the bytes of the float, so a NaN is a sample like any other).  The sizes    *)
(* the model reaches are far from the range of int32_t.                        *)

NoFile == <<-1>>

\* rows and cols of the maps the model builds
MaxDim == 2

\* The bytes of 0.0f, 1.0f, a quiet NaN and -1.0f in memory (little-endian host)
FloatBits == << <<0, 0, 0, 0>>, <<0, 0, 128, 63>>, <<0, 0, 192, 127>>, <<0, 0, 128, 191>> >>
Zero == FloatBits[1]
NaN == FloatBits[3]

\* The four bytes of an int32_t in memory (two's complement, little-endian host)
Int32ToBytes(v) ==
    <<v % 256, (v \div 256) % 256, (v \div 65536) % 256, (v \div 16777216) % 256>>

BytesToInt32(b) ==
    b[1] + 256 * b[2] + 65536 * b[3] + 16777216 * (IF b[4] >= 128 THEN b[4] - 256 ELSE b[4])

RECURSIVE Flatten(_)
Flatten(items) ==
    IF items = <<>> THEN <<>> ELSE Head(items) \o Flatten(Tail(items))

\* cv::Mat_<float>() and cv::Mat_<cv::Vec3f>(): an empty map
EmptyMat(channels) == [rows |-> 0, cols |-> 0, channels |-> channels, data |-> <<>>]

\* cv::Mat::zeros(h, w, type)
Zeros(h, w, channels) ==
    [rows |-> h, cols |-> w, channels |-> channels,
     data |-> [k \in 1 .. h * w * channels |-> Zero]]

\* A writer that stores the header fields h and w in the wrong order
WriteDmbSwapped(m, nb) ==
    Flatten(<<Int32ToBytes(1), Int32ToBytes(m.cols), Int32ToBytes(m.rows),
              Int32ToBytes(nb)>>)
    \o Flatten([k \in 1 .. m.cols * m.rows * nb |-> m.data[k]])

\* fwrite of the four header fields and of w*h*nb samples taken from m.data
WriteDmb(m, nb) ==
    LET datasize == m.cols * m.rows * nb
    IN  Flatten(<<Int32ToBytes(1), Int32ToBytes(m.rows), Int32ToBytes(m.cols),
                  Int32ToBytes(nb)>>)
        \o Flatten([k \in 1 .. datasize |-> m.data[k]])

writeDepthDmb(depth) == WriteDmb(depth, 1)

writeNormalDmb(normal) == WriteDmb(normal, 3)

\* The k-th 4-byte item of the file (k from 1), when the file holds all of it.
HasItem(file, k) == Len(file) >= 4 * k
Item(file, k) == SubSeq(file, 4 * k - 3, 4 * k)

\* The body shared by the two readers.  `out` is the caller's map and `garbage`
\* what the uninitialized locals h, w, nb hold when fread stores nothing in them.
\* The result is [ret, map, overflow]: overflow says fread was told to store
\* more samples than the map's buffer holds.
ReadDmb(file, out, garbage, channels) ==
    IF file = NoFile
    THEN [ret |-> -1, map |-> out, overflow |-> FALSE]
    ELSE
    LET type == IF HasItem(file, 1) THEN BytesToInt32(Item(file, 1)) ELSE -1
        h    == IF HasItem(file, 2) THEN BytesToInt32(Item(file, 2)) ELSE garbage[1]
        w    == IF HasItem(file, 3) THEN BytesToInt32(Item(file, 3)) ELSE garbage[2]
        nb   == IF HasItem(file, 4) THEN BytesToInt32(Item(file, 4)) ELSE garbage[3]
    IN  IF type # 1
        THEN [ret |-> -1, map |-> out, overflow |-> FALSE]
        ELSE
        LET dataSize == h * w * nb
            capacity == h * w * channels
            avail    == IF Len(file) >= 16 THEN (Len(file) - 16) \div 4 ELSE 0
            \* the count is converted to size_t: a negative one asks for everything
            got      == IF dataSize < 0 \/ dataSize > avail THEN avail ELSE dataSize
            kept     == IF got < capacity THEN got ELSE capacity
        IN  [ret |-> 0,
             map |-> [rows |-> h, cols |-> w, channels |-> channels,
                      data |-> [k \in 1 .. capacity |->
                                  IF k <= kept THEN Item(file, 4 + k) ELSE Zero]],
             overflow |-> got > capacity]

readDepthDmb(file, depth, garbage) == ReadDmb(file, depth, garbage, 1)

readNormalDmb(file, normal, garbage) == ReadDmb(file, normal, garbage, 3)

\* The maps the model writes: every size up to MaxDim x MaxDim, the samples
\* running through FloatBits from offset b in steps of a
Samples(len, a, b) == [k \in 1 .. len |-> FloatBits[((a * k + b) % 4) + 1]]

Maps(channels) ==
    {[rows |-> h, cols |-> w, channels |-> channels,
      data |-> Samples(h * w * channels, a, b)] :
        h \in 0 .. MaxDim, w \in 0 .. MaxDim, a \in 0 .. 1, b \in 0 .. 3}

Channels(kind) == IF kind = "depth" THEN 1 ELSE 3

\* The file with its k-th 4-byte item replaced
WithItem(file, k, v) ==
    SubSeq(file, 1, 4 * k - 4) \o Int32ToBytes(v) \o SubSeq(file, 4 * k + 1, Len(file))

\* What may become of a written file before it is read: it is removed, cut to its
\* first bytes, loses its last bytes, or has a header field changed.
Damages ==
    {<<"remove", 0>>}
    \cup {<<"cut", c>> : c \in {0, 3, 4, 8, 12, 15, 16}}
    \cup {<<"drop", c>> : c \in {1, 4}}
    \cup {<<"type", v>> : v \in {-1, 0, 2}}
    \cup {<<"nb", v>> : v \in {1, 2, 3}}

Damage(file, d) ==
    CASE d[1] = "remove" -> NoFile
      [] d[1] = "cut"    -> SubSeq(file, 1, d[2])
      [] d[1] = "drop"   -> SubSeq(file, 1, Len(file) - d[2])
      [] d[1] = "type"   -> WithItem(file, 1, d[2])
      [] d[1] = "nb"     -> WithItem(file, 4, d[2])

DmbInit ==
    dmb = [pc |-> "none", writer |-> "none", written |-> EmptyMat(1), file |-> NoFile,
           intact |-> FALSE, reader |-> "none", before |-> EmptyMat(1),
           map |-> EmptyMat(1), ret |-> 0, overflow |-> FALSE]

\* writeDepthDmb(path, m) or writeNormalDmb(path, m)
DmbWrite(kind, m) ==
    /\ dmb.pc = "none"
    /\ dmb' = [dmb EXCEPT !.pc = "written", !.writer = kind, !.written = m,
                          !.intact = TRUE,
                          !.file = IF kind = "depth" THEN writeDepthDmb(m)
                                   ELSE writeNormalDmb(m)]
    /\ UNCHANGED <<hpmVars, rescale, jbu, support, plane, prior, ply, board, omp>>

\* The file is damaged between its writing and its reading
DmbDamage(d) ==
    /\ dmb.pc = "written"
    /\ dmb.intact
    /\ Damage(dmb.file, d) # dmb.file
    /\ dmb' = [dmb EXCEPT !.file = Damage(dmb.file, d), !.intact = FALSE]
    /\ UNCHANGED <<hpmVars, rescale, jbu, support, plane, prior, ply, board, omp>>

\* ret = readDepthDmb(path, out) or ret = readNormalDmb(path, out)
DmbRead(kind, out, garbage) ==
    LET r == IF kind = "depth" THEN readDepthDmb(dmb.file, out, garbage)
             ELSE readNormalDmb(dmb.file, out, garbage)
    IN
    /\ dmb.pc = "written"
    /\ dmb' = [dmb EXCEPT !.pc = "read", !.reader = kind, !.before = out,
                          !.map = r.map, !.ret = r.ret, !.overflow = r.overflow]
    /\ UNCHANGED <<hpmVars, rescale, jbu, support, plane, prior, ply, board, omp>>

-----------------------------------------------------------------------------
(* Images, cameras and rescaling.  An image or map size is [rows, cols]; a    *)
(* camera is [K, width, height, depth_min, depth_max] with K the four entries  *)
(* nine entries of the intrinsic matrix, K[i] of the code at position i + 1,   *)
(* each an exact fraction <<n, d>>.                                            *)

Rat(n) == <<n, 1>>
RatMul(a, b) == <<a[1] * b[1], a[2] * b[2]>>

Size(rows, cols) == [rows |-> rows, cols |-> cols]
EmptyImage == Size(0, 0)

\* std::round of the non-negative fraction n/d
Round(n, d) == (2 * n + d) \div (2 * d)

\* A rescaling that applies the horizontal factor to all four entries
ScaleKUniform(K, scale_x, scale_y) ==
    [K EXCEPT ![1] = RatMul(@, scale_x), ![3] = RatMul(@, scale_x),
              ![5] = RatMul(@, scale_x), ![6] = RatMul(@, scale_x)]

\* K[0] *= scale_x; K[2] *= scale_x; K[4] *= scale_y; K[5] *= scale_y;
ScaleK(K, scale_x, scale_y) ==
    [K EXCEPT ![1] = RatMul(@, scale_x), ![3] = RatMul(@, scale_x),
              ![5] = RatMul(@, scale_y), ![6] = RatMul(@, scale_y)]

\* ReadCamera: a missing file leaves every field of the local Camera as it was
ReadCamera(cam_file, garbage) ==
    IF cam_file.present
    THEN [K |-> cam_file.K, width |-> garbage.width, height |-> garbage.height,
          depth_min |-> cam_file.depth_min, depth_max |-> cam_file.depth_max]
    ELSE garbage

\* RescaleImageAndCamera(src, dst, depth, camera): [dst, camera, thrown];
\* cv::resize throws on an empty source or target size, before K is touched.
RescaleImageAndCamera(src, dst, depth, camera) ==
    LET cols == depth.cols
        rows == depth.rows
    IN  IF cols = src.cols /\ rows = src.rows
        THEN [dst |-> src, camera |-> camera, thrown |-> FALSE]
        ELSE IF src.cols = 0 \/ src.rows = 0 \/ cols = 0 \/ rows = 0
        THEN [dst |-> dst, camera |-> camera, thrown |-> TRUE]
        ELSE [dst |-> Size(rows, cols),
              camera |-> [camera EXCEPT
                            !.K = ScaleK(@, <<cols, src.cols>>, <<rows, src.rows>>),
                            !.width = cols,
                            !.height = rows],
              thrown |-> FALSE]

\* One pass of the scaling loop of InuputInitialization: [image, camera, thrown]
ScaleImageAndCamera(image, camera, max_image_size) ==
    IF image.cols <= max_image_size /\ image.rows <= max_image_size
    THEN [image |-> image, camera |-> camera, thrown |-> FALSE]
    ELSE
    LET \* factor = min(max/cols, max/rows) = max / (the larger side)
        side     == IF image.cols >= image.rows THEN image.cols ELSE image.rows
        new_cols == Round(image.cols * max_image_size, side)
        new_rows == Round(image.rows * max_image_size, side)
    IN  IF new_cols = 0 \/ new_rows = 0
        THEN [image |-> image, camera |-> camera, thrown |-> TRUE]
        ELSE [image |-> Size(new_rows, new_cols),
              camera |-> [camera EXCEPT
                            !.K = ScaleK(@, <<new_cols, image.cols>>, <<new_rows, image.rows>>),
                            !.height = new_rows,
                            !.width = new_cols],
              thrown |-> FALSE]

-----------------------------------------------------------------------------
(* Files of one problem.  A stored map is given by its size; Missing stands    *)
(* for a file that does not exist.                                             *)

Missing == Size(-1, -1)

\* readDepthDmb / readNormalDmb into a fresh, empty map, as the callers do: what the
\* caller keeps is the size of its map and whether the read failed.  The stored
\* files are well-formed, so a read fails only when the file does not exist.
ReadSize(stored) ==
    IF stored = Missing
    THEN [rows |-> 0, cols |-> 0, failed |-> TRUE]
    ELSE [rows |-> stored.rows, cols |-> stored.cols, failed |-> FALSE]

\* Accesses m(row, col) for row < height, col < width made on map m
MapFaults(where, name, m, height, width) ==
    IF \E row \in 0 .. height - 1, col \in 0 .. width - 1 : row >= m.rows \/ col >= m.cols
    THEN {<<where, name, IF m.failed THEN "empty" ELSE "oob">>}
    ELSE {}

\* Accesses buffer[row * width + col] for row < height, col < width on a buffer of n elements
IndexFaults(where, name, n, height, width) ==
    IF \E row \in 0 .. height - 1, col \in 0 .. width - 1 : row * width + col >= n
    THEN {<<where, name, "index">>}
    ELSE {}

-----------------------------------------------------------------------------
(* Initialization routines *)

\* What an uninitialized Camera local may hold before ReadCamera fills it
GarbageCameras ==
    {[K |-> [i \in 1 .. 9 |-> Rat(k)], width |-> k, height |-> k,
      depth_min |-> k, depth_max |-> k] : k \in {0, 5}}

\* problem: [img, cam, size, depth], sequences over the reference image followed by
\* the source images: the image file's size (EmptyImage when it does not exist),
\* the camera file, cur_image_size of the image's problem, the stored depth map.
\* garbage: what each Camera local holds before its file is read.
InuputInitialization(problem, garbage) ==
    LET n       == Len(problem.img)
        read    == [k \in 1 .. n |->
                      [image  |-> problem.img[k],
                       camera |-> [ReadCamera(problem.cam[k], garbage[k]) EXCEPT
                                     !.height = problem.img[k].rows,
                                     !.width = problem.img[k].cols]]]
        scaled  == [k \in 1 .. n |->
                      ScaleImageAndCamera(read[k].image, read[k].camera, problem.size[k])]
    IN
    /\ ~destroyed
    /\ UNCHANGED fnVars
    /\ \A k \in 1 .. n : ~scaled[k].thrown
    /\ images' = [k \in 1 .. n |-> scaled[k].image]
    /\ cameras' = [k \in 1 .. n |-> scaled[k].camera]
    /\ params' = [params EXCEPT
                    !.depth_min = <<scaled[1].camera.depth_min * 6, 10>>,
                    !.depth_max = <<scaled[1].camera.depth_max * 12, 10>>,
                    !.num_images = n]
    /\ depths' = IF params.geom_consistency
                 THEN [k \in 1 .. n |-> ReadSize(problem.depth[k])]
                 ELSE depths
    /\ requested' = n
    /\ loaded' = Cardinality({k \in 1 .. n :
                                problem.img[k] # EmptyImage /\ problem.cam[k].present})
    /\ faults' = {}
    /\ UNCHANGED <<num_images, ptr, allocs, wild, cuda_failed, exited, destroyed,
                   calls, released>>

TextureInformationInitialization(failAt) ==
    /\ ~destroyed
    /\ UNCHANGED fnVars
    /\ Len(cameras) > 0
    /\ calls < MaxCalls
    /\ calls' = calls + 1
    /\ released' = {}
    /\ Commit(cudaMalloc(New(Store, F("texture_host")), F("texture_cuda"), failAt))
    /\ faults' = {}
    /\ UNCHANGED <<params, num_images, images, cameras, depths, exited, destroyed,
                   requested, loaded>>

\* The geom_consistency branch of CudaSpaceInitialization: [store, depths, faults]
SpaceInitGeom(s, stored, failAt) ==
    LET where  == "CudaSpaceInitialization.geom"
        n      == Len(images)
        size   == cameras[1].height * cameras[1].width
        s1     == MallocAll(s, PerImage(n, "cuDepthArray", "texture_depths_host"), failAt)
        s2     == cudaMemcpy(cudaMalloc(s1, F("texture_depths_cuda"), failAt), failAt)
        ref_depth  == ReadSize(IF params.multi_geometry THEN stored.depths_geom
                                      ELSE stored.depths)
        ref_normal == ReadSize(stored.normals)
        ref_cost   == ReadSize(stored.costs)
        width  == ref_depth.cols
        height == ref_depth.rows
    IN  [store  |-> s2,
         depths |-> Append(depths, ref_depth),
         faults |-> (IF n > Len(depths) THEN {<<where, "depths", "vector">>} ELSE {})
                    \cup MapFaults(where, "ref_normal", ref_normal, height, width)
                    \cup MapFaults(where, "ref_depth", ref_depth, height, width)
                    \cup MapFaults(where, "ref_cost", ref_cost, height, width)
                    \cup IndexFaults(where, "plane_hypotheses_host", size, height, width)
                    \cup IndexFaults(where, "costs_host", size, height, width)]

\* if (width != images[0].rows || height != images[0].cols)
NeedsUpsample(width, height, image) ==
    width # image.rows \/ height # image.cols

\* The hierarchy branch of CudaSpaceInitialization: [store, depths, faults, params]
SpaceInitHierarchy(s, ds, stored, failAt) ==
    LET where  == "CudaSpaceInitialization.hierarchy"
        ref_depth  == ReadSize(stored.depths)
        ref_normal == ReadSize(stored.normals)
        ref_cost   == ReadSize(stored.costs)
        width  == ref_normal.cols
        height == ref_normal.rows
        s1     == cudaMalloc(New(s, F("scaled_plane_hypotheses_host")),
                             F("scaled_plane_hypotheses_cuda"), failAt)
        s2     == cudaMalloc(New(s1, F("pre_costs_host")), F("pre_costs_cuda"), failAt)
        up     == NeedsUpsample(width, height, images[1])
        cam    == cameras[1]
    IN  [store  |-> cudaMemcpy(s2, failAt),
         depths |-> Append(ds, ref_depth),
         params |-> IF up
                    THEN [params EXCEPT !.upsample = TRUE,
                                        !.scaled_cols = width,
                                        !.scaled_rows = height]
                    ELSE [params EXCEPT !.upsample = FALSE],
         faults |-> MapFaults(where, "ref_normal", ref_normal, height, width)
                    \cup (IF up THEN MapFaults(where, "ref_cost", ref_cost, height, width)
                          ELSE MapFaults(where, "ref_depth", ref_depth, height, width))
                    \cup IndexFaults(where, "scaled_plane_hypotheses_host",
                                     height * width, height, width)
                    \cup MapFaults(where, "ref_depth", ref_depth, cam.height, cam.width)
                    \cup IndexFaults(where, "plane_hypotheses_host",
                                     cam.height * cam.width, cam.height, cam.width)]

\* stored: the sizes of depths.dmb, depths_geom.dmb, normals.dmb and costs.dmb in the
\* reference image's result folder; failAt: the CUDA call that fails, if any.
CudaSpaceInitialization(stored, failAt) ==
    LET n  == Len(images)
        s1 == MallocAll(Store, PerImage(n, "cuArray", "texture_objects_host"), failAt)
        s2 == cudaMemcpy(cudaMalloc(s1, F("texture_objects_cuda"), failAt), failAt)
        s3 == cudaMemcpy(cudaMalloc(s2, F("cameras_cuda"), failAt), failAt)
        s4 == cudaMalloc(New(s3, F("plane_hypotheses_host")), F("plane_hypotheses_cuda"), failAt)
        s5 == cudaMalloc(New(s4, F("costs_host")), F("costs_cuda"), failAt)
        s6 == MallocAll(s5, Names(<<"pre_costs_cuda", "rand_states_cuda",
                                    "selected_views_cuda", "depths_cuda">>), failAt)
        g  == IF params.geom_consistency
              THEN SpaceInitGeom(s6, stored, failAt)
              ELSE [store |-> s6, depths |-> depths, faults |-> {}]
        h  == IF params.hierarchy
              THEN SpaceInitHierarchy(g.store, g.depths, stored, failAt)
              ELSE [store |-> g.store, depths |-> g.depths, faults |-> {}, params |-> params]
    IN
    /\ ~destroyed
    /\ UNCHANGED fnVars
    /\ Len(cameras) > 0
    /\ calls < MaxCalls
    /\ calls' = calls + 1
    /\ released' = {}
    /\ num_images' = n
    /\ Commit(h.store)
    /\ depths' = h.depths
    /\ params' = h.params
    /\ faults' = g.faults \cup h.faults
    /\ UNCHANGED <<images, cameras, exited, destroyed, requested, loaded>>

\* Canny: the size of the edge map the caller passes
CudaCannyInitialization(Canny, failAt) ==
    LET cam == cameras[1]
        s1  == cudaMalloc(New(Store, F("Canny_host")), F("Canny_cuda"), failAt)
        s2  == cudaFree(cudaMemcpy(s1, failAt), F("Canny_host"))
    IN
    /\ ~destroyed
    /\ UNCHANGED fnVars
    /\ Len(cameras) > 0
    /\ calls < MaxCalls
    /\ calls' = calls + 1
    /\ released' = {}
    /\ Commit(s2)
    /\ faults' = MapFaults("CudaCannyInitialization", "Canny",
                                [rows |-> Canny.rows, cols |-> Canny.cols, failed |-> FALSE],
                                cam.height, cam.width)
                 \cup IndexFaults("CudaCannyInitialization", "Canny_host",
                                  cam.height * cam.width, cam.height, cam.width)
    /\ UNCHANGED <<params, num_images, images, cameras, depths, exited, destroyed,
                   requested, loaded>>

\* confidence: the size of confidence.dmb in the result folder, or Missing
CudaConfidenceInitialization(confidence, failAt) ==
    LET cam == cameras[1]
        confidences == ReadSize(confidence)
        s1  == New(Store, F("confidences_host"))
        s2  == cudaMemcpy(cudaMalloc(s1, F("confidences_cuda"), failAt), failAt)
    IN
    /\ ~destroyed
    /\ UNCHANGED fnVars
    /\ Len(cameras) > 0
    /\ calls < MaxCalls
    /\ calls' = calls + 1
    /\ released' = {}
    /\ Commit(s2)
    /\ faults' = MapFaults("CudaConfidenceInitialization", "confidences",
                                confidences, cam.height, cam.width)
                 \cup IndexFaults("CudaConfidenceInitialization", "confidences_host",
                                  cam.height * cam.width, cam.height, cam.width)
    /\ UNCHANGED <<params, num_images, images, cameras, depths, exited, destroyed,
                   requested, loaded>>

\* The allocations shared by CudaPlanarPriorInitialization and
\* ReloadPlanarPriorInitialization
PlanarPriorAllocate(s, failAt) ==
    LET s1 == cudaMalloc(New(s, F("prior_planes_host")), F("prior_planes_cuda"), failAt)
        s2 == cudaMalloc(New(s1, F("plane_masks_host")), F("plane_masks_cuda"), failAt)
    IN  cudaMemcpy(s2, failAt)

CudaPlanarPriorInitialization(failAt) ==
    /\ ~destroyed
    /\ UNCHANGED fnVars
    /\ Len(cameras) > 0
    /\ calls < MaxCalls
    /\ calls' = calls + 1
    /\ released' = {}
    /\ Commit(PlanarPriorAllocate(Store, failAt))
    /\ faults' = {}
    /\ UNCHANGED <<params, num_images, images, cameras, depths, exited, destroyed,
                   requested, loaded>>

ReloadPlanarPriorInitialization(failAt) ==
    /\ ~destroyed
    /\ UNCHANGED fnVars
    /\ Len(cameras) > 0
    /\ calls < MaxCalls
    /\ calls' = calls + 1
    /\ released' = {}
    /\ Commit(PlanarPriorAllocate(Store, failAt))
    /\ faults' = {}
    /\ UNCHANGED <<params, num_images, images, cameras, depths, exited, destroyed,
                   requested, loaded>>

-----------------------------------------------------------------------------
(* One rescaling: the image and camera handed to RescaleImageAndCamera or to   *)
(* a pass of the scaling loop, and what they are afterwards.                   *)

IdleCamera ==
    [K |-> [i \in 1 .. 9 |-> Rat(0)], width |-> 0, height |-> 0,
     depth_min |-> 0, depth_max |-> 0]

RescaleInit ==
    rescale = [pc |-> "none", src |-> EmptyImage, before |-> IdleCamera,
               image |-> EmptyImage, camera |-> IdleCamera]

\* RescaleImageAndCamera(src, dst, depth, camera) with an empty dst
RescaleCall(src, depth, camera) ==
    LET r == RescaleImageAndCamera(src, EmptyImage, depth, camera)
    IN  /\ rescale.pc = "none"
        /\ rescale' = [pc |-> IF r.thrown THEN "thrown" ELSE "RescaleImageAndCamera",
                       src |-> src, before |-> camera,
                       image |-> r.dst, camera |-> r.camera]
        /\ UNCHANGED <<hpmVars, dmb, jbu, support, plane, prior, ply, board, omp>>

\* The pass of the scaling loop of InuputInitialization over one image of the list
ScaleCall(image, camera, max_image_size) ==
    LET r == ScaleImageAndCamera(image, camera, max_image_size)
    IN  /\ rescale.pc = "none"
        /\ rescale' = [pc |-> IF r.thrown THEN "thrown" ELSE "InuputInitialization",
                       src |-> image, before |-> camera,
                       image |-> r.image, camera |-> r.camera]
        /\ UNCHANGED <<hpmVars, dmb, jbu, support, plane, prior, ply, board, omp>>

-----------------------------------------------------------------------------
(* Joint bilateral upsampling (RunJBU, HPM::JointBilateralUpsampling_prior).   *)
(* The kernels run on the device; what they leave in depth_h and normal_h is   *)
(* an input of the host code modelled here.  A float is one of FloatBits.      *)

One == FloatBits[2]

\* x != x
IsNaN(x) == x = NaN

Max(a, b) == IF a >= b THEN a ELSE b

\* std::max(image.rows / src.rows, image.cols / src.cols) in int arithmetic
Imagescale(scaled_image_float, src_depthmap) ==
    Max(scaled_image_float.rows \div src_depthmap.rows,
        scaled_image_float.cols \div src_depthmap.cols)

InMap(m, row, col) == row < m.rows /\ col < m.cols

\* m(row, col)[c]: a read outside the map yields whatever lies there
At(m, row, col, c, stray) ==
    IF InMap(m, row, col)
    THEN m.data[(row * m.cols + col) * m.channels + c + 1]
    ELSE stray

\* The map after m(j, i)[c] = value[center, c] for every pixel of a rows x cols grid,
\* center = i + cols * j; the writes that fall outside the map are not in it
Assigned(m, rows, cols, value) ==
    [m EXCEPT !.data =
        [k \in 1 .. Len(m.data) |->
            LET pixel == (k - 1) \div m.channels
                j     == pixel \div m.cols
                i     == pixel % m.cols
            IN  IF j < rows /\ i < cols
                THEN value[i + cols * j, (k - 1) % m.channels]
                ELSE m.data[k]]]

\* The pixels (j, i) of a rows x cols grid for which (row(j), col(i)) is outside m
Outside(m, rows, cols, div) ==
    {<<j, i>> \in (0 .. rows - 1) \X (0 .. cols - 1) : ~InMap(m, j \div div, i \div div)}

\* No upsampling function has been called
NoCall ==
    [pc |-> "none", Imagescale |-> 0,
     scaled_image_float |-> EmptyImage,
     src_depthmap |-> EmptyMat(1), src_normal |-> EmptyMat(3),
     depth_h |-> <<>>, normal_h |-> <<>>,
     stored |-> NoFile, file |-> NoFile,
     before_depthmap |-> EmptyMat(1), before_normal |-> EmptyMat(3),
     upsample_depthmap |-> EmptyMat(1), upsample_normal |-> EmptyMat(3),
     faults |-> {}, early |-> FALSE, exited |-> FALSE]

JbuInit == jbu = NoCall

\* RunJBU(scaled_image_float, src_depthmap, dense_folder, problem).  depths.dmb of the
\* problem holds src_depthmap before the call.  depth_h: what CudaRun left in
\* jbu.depth_h; stray: what a read outside src_depthmap yields; failed: a
\* CUDA_SAFE_CALL of the cleanup gets an error.
RunJBU(scaled_image_float, src_depthmap, depth_h, stray, failed) ==
    LET rows   == scaled_image_float.rows
        cols   == scaled_image_float.cols
        scale  == Imagescale(scaled_image_float, src_depthmap)
        stored == writeDepthDmb(src_depthmap)
        value  == [center \in 0 .. rows * cols - 1, c \in {0} |->
                      IF IsNaN(depth_h[center + 1])
                      THEN At(src_depthmap, (center \div cols) \div 2,
                              (center % cols) \div 2, 0, stray)
                      ELSE depth_h[center + 1]]
        depthmap == Assigned(Zeros(rows, cols, 1), rows, cols, value)
        nans   == {<<j, i>> \in Outside(src_depthmap, rows, cols, 2) :
                      IsNaN(depth_h[i + cols * j + 1])}
        call   == [NoCall EXCEPT !.pc = "RunJBU", !.Imagescale = scale,
                                   !.scaled_image_float = scaled_image_float,
                                   !.src_depthmap = src_depthmap,
                                   !.stored = stored, !.file = stored]
    IN
    /\ jbu.pc = "none"
    /\ jbu' = IF scale = 1
              THEN [call EXCEPT !.early = TRUE]
              ELSE [call EXCEPT !.depth_h = depth_h,
                                !.upsample_depthmap = depthmap,
                                !.file = writeDepthDmb(depthmap),
                                !.faults = IF nans = {} THEN {}
                                           ELSE {<<"RunJBU", "src_depthmap", "oob">>},
                                !.exited = failed]
    /\ UNCHANGED <<hpmVars, dmb, rescale, support, plane, prior, ply, board, omp>>

\* HPM::JointBilateralUpsampling_prior(scaled_image_float, src_depthmap,
\* upsample_depthmap, src_normal, upsample_normal).  depth_h, normal_h: what
\* CudaRun_prior left in jbu_prior.depth_h and jbu_prior.normal_h.
JointBilateralUpsampling_prior(scaled_image_float, src_depthmap, upsample_depthmap, src_normal, upsample_normal, depth_h, normal_h, failed) ==
    LET rows   == scaled_image_float.rows
        cols   == scaled_image_float.cols
        scale  == Imagescale(scaled_image_float, src_depthmap)
        \* the fallback values written at 1319-1324 are overwritten at 1326-1329
        depth  == [center \in 0 .. rows * cols - 1, c \in {0} |-> depth_h[center + 1]]
        normal == [center \in 0 .. rows * cols - 1, c \in 0 .. 2 |->
                      normal_h[center + 1][c + 1]]
        nans   == {<<j, i>> \in Outside(src_depthmap, rows, cols, 2) :
                      IsNaN(depth_h[i + cols * j + 1])}
        where  == "JointBilateralUpsampling_prior"
        call   == [NoCall EXCEPT !.pc = where, !.Imagescale = scale,
                                   !.scaled_image_float = scaled_image_float,
                                   !.src_depthmap = src_depthmap,
                                   !.src_normal = src_normal,
                                   !.before_depthmap = upsample_depthmap,
                                   !.before_normal = upsample_normal,
                                   !.upsample_depthmap = upsample_depthmap,
                                   !.upsample_normal = upsample_normal]
    IN
    /\ jbu.pc = "none"
    /\ jbu' = IF scale = 1
              THEN [call EXCEPT !.early = TRUE]
              ELSE [call EXCEPT
                      !.depth_h = depth_h,
                      !.normal_h = normal_h,
                      !.upsample_depthmap = Assigned(upsample_depthmap, rows, cols, depth),
                      !.upsample_normal = Assigned(upsample_normal, rows, cols, normal),
                      !.faults =
                          (IF nans = {} THEN {} ELSE {<<where, "src_depthmap", "oob">>})
                          \cup (IF Outside(upsample_depthmap, rows, cols, 1) = {} THEN {}
                                ELSE {<<where, "upsample_depthmap", "oob">>})
                          \cup (IF Outside(upsample_normal, rows, cols, 1) = {} THEN {}
                                ELSE {<<where, "upsample_normal", "oob">>}),
                      !.exited = failed]
    /\ UNCHANGED <<hpmVars, dmb, rescale, support, plane, prior, ply, board, omp>>

-----------------------------------------------------------------------------
(* Support point selection (HPM::GetSupportPoints_Classify_Check).  A float of *)
(* the cost, confidence and texture fields is a number of twentieths or a NaN. *)

Val(n) == [nan |-> FALSE, v |-> n]
NotANumber == [nan |-> TRUE, v |-> 0]

\* a < b and a - b on floats: a comparison with a NaN is false, NaN - x is NaN
Lt(a, b) == ~a.nan /\ ~b.nan /\ a.v < b.v
Sub(a, b) == [nan |-> a.nan \/ b.nan, v |-> IF a.nan \/ b.nan THEN 0 ELSE a.v - b.v]

\* const int step_size = 5
step_size == 5

\* 2.0f, 0.2, 0.1 and 0.5f in twentieths
MaxCost == Val(40)
TexturePenalty == Val(4)
AcceptBelow == Val(2)
Textured == Val(10)

Min(a, b) == IF a <= b THEN a ELSE b

\* cv::Point(x, y)
Point(x, y) == [x |-> x, y |-> y]

\* if (photometric_cost <= 2.0f)
UsableInclusive(photometric_cost) == ~photometric_cost.nan /\ photometric_cost.v <= MaxCost.v

\* if (photometric_cost < 2.0f)
Usable(photometric_cost) == Lt(photometric_cost, MaxCost)

\* photometric_cost - confidence
final_cost_no_texture(photometric_cost, confidence) == Sub(photometric_cost, confidence)

\* photometric_cost - confidence, the penalty left out
final_cost_unpenalized(photometric_cost, confidence) == Sub(photometric_cost, confidence)

\* photometric_cost + 0.2 - confidence
final_cost_texture(photometric_cost, confidence) ==
    Sub(Sub(photometric_cost, [TexturePenalty EXCEPT !.v = -@]), confidence)

\* The pixels of the tile at (col, row) in the order the loops visit them: c outer,
\* r inner
TilePixels(col, row, width, height) ==
    LET c_bound == Min(width, col + step_size)
        r_bound == Min(height, row + step_size)
        nr      == r_bound - row
    IN  [k \in 1 .. (c_bound - col) * nr |->
            [c |-> col + ((k - 1) \div nr), r |-> row + ((k - 1) % nr)]]

\* The locals of the tile loop before the first pixel
TileStart ==
    [min_cost_no_texture |-> MaxCost, min_cost_texture |-> MaxCost,
     temp_point_no_texture |-> Point(0, 0), temp_point_texture |-> Point(0, 0),
     texture_flag |-> FALSE]

\* The body of the pixel loops for pixel (r, c)
PixelStep(t, costs, confidences, texture, r, c) ==
    LET photometric_cost == costs[r, c]
        confidence == confidences[r, c]
        no_tex == final_cost_no_texture(photometric_cost, confidence)
        tex    == final_cost_texture(photometric_cost, confidence)
        flag   == t.texture_flag \/ Lt(Textured, texture[r, c])
        lower_no_tex == Usable(photometric_cost) /\ Lt(no_tex, t.min_cost_no_texture)
        lower_tex    == Usable(photometric_cost) /\ Lt(tex, t.min_cost_texture)
    IN  [texture_flag |-> flag,
         temp_point_no_texture |-> IF lower_no_tex THEN Point(c, r)
                                   ELSE t.temp_point_no_texture,
         min_cost_no_texture |-> IF lower_no_tex THEN no_tex ELSE t.min_cost_no_texture,
         temp_point_texture |-> IF lower_tex THEN Point(c, r) ELSE t.temp_point_texture,
         min_cost_texture |-> IF lower_tex THEN tex ELSE t.min_cost_texture]

\* The locals of the tile loop after the first k pixels of the tile
RECURSIVE TileScan(_, _, _, _, _)
TileScan(pixels, k, costs, confidences, texture) ==
    IF k = 0 THEN TileStart
    ELSE PixelStep(TileScan(pixels, k - 1, costs, confidences, texture),
                   costs, confidences, texture, pixels[k].r, pixels[k].c)

\* What one tile pushes onto support2DPoints
TilePoints(t) ==
    (IF Lt(t.min_cost_texture, AcceptBelow) THEN <<t.temp_point_texture>> ELSE <<>>)
    \o (IF Lt(t.min_cost_no_texture, AcceptBelow) THEN <<t.temp_point_no_texture>> ELSE <<>>)

\* The tile origins in the order of the outer loops: col outer, row inner
TileOrigins(width, height) ==
    LET nc == (width + step_size - 1) \div step_size
        nr == (height + step_size - 1) \div step_size
    IN  [k \in 1 .. nc * nr |->
            [col |-> step_size * ((k - 1) \div nr), row |-> step_size * ((k - 1) % nr)]]

\* The locals of every tile at the end of its pixel loops
Tiles(costs, confidences, texture, width, height) ==
    LET origins == TileOrigins(width, height)
    IN  [k \in 1 .. Len(origins) |->
            LET pixels == TilePixels(origins[k].col, origins[k].row, width, height)
            IN  TileScan(pixels, Len(pixels), costs, confidences, texture)]

RECURSIVE Concat(_)
Concat(seqs) == IF seqs = <<>> THEN <<>> ELSE Head(seqs) \o Concat(Tail(seqs))

\* HPM::GetSupportPoints_Classify_Check: support2DPoints on return
GetSupportPoints_Classify_Check(costs, confidences, texture, width, height) ==
    LET tiles == Tiles(costs, confidences, texture, width, height)
    IN  Concat([k \in 1 .. Len(tiles) |-> TilePoints(tiles[k])])

\* width = GetReferenceImageWidth() * hpm_factor, truncated to int
ScaledSide(side, hpm_factor) == (side * hpm_factor[1]) \div hpm_factor[2]

NoSupportCall ==
    [pc |-> "none", width |-> 0, height |-> 0, costs |-> <<>>, confidences |-> <<>>,
     texture |-> <<>>, tiles |-> <<>>, emitted |-> <<>>, support2DPoints |-> <<>>]

SupportInit == support = NoSupportCall

\* One call on fields of the size the function scans
SupportCall(camera, hpm_factor, field) ==
    LET width  == ScaledSide(camera.width, hpm_factor)
        height == ScaledSide(camera.height, hpm_factor)
        costs       == [r \in 0 .. height - 1, c \in 0 .. width - 1 |-> field[r, c].cost]
        confidences == [r \in 0 .. height - 1, c \in 0 .. width - 1 |-> field[r, c].confidence]
        texture     == [r \in 0 .. height - 1, c \in 0 .. width - 1 |-> field[r, c].texture]
        tiles       == Tiles(costs, confidences, texture, width, height)
    IN  /\ support.pc = "none"
        /\ support' = [pc |-> "GetSupportPoints_Classify_Check",
                       width |-> width, height |-> height,
                       costs |-> costs, confidences |-> confidences, texture |-> texture,
                       tiles |-> tiles,
                       emitted |-> [k \in 1 .. Len(tiles) |-> TilePoints(tiles[k])],
                       support2DPoints |->
                           GetSupportPoints_Classify_Check(costs, confidences, texture,
                                                           width, height)]
        /\ UNCHANGED <<hpmVars, dmb, rescale, jbu, plane, prior, ply, board, omp>>

-----------------------------------------------------------------------------
(* Plane fitting (HPM::GetPriorPlaneParams, HPM::GetPriorPlaneParams_factor):  *)
(* the normalization of the null vector cv::SVD::solveZ returns.  The vectors  *)
(* have integer components and a spatial part of integer length; a component   *)
(* of the returned plane is an exact fraction <<n, d>> with d > 0.             *)

make_float4(x, y, z, w) == [x |-> x, y |-> y, z |-> z, w |-> w]

\* sqrt of a perfect square
Sqrt(s) == CHOOSE n \in 0 .. s : n * n = s

\* x / norm2
Div(x, norm2) == IF norm2 < 0 THEN <<-x, -norm2>> ELSE <<x, norm2>>

\* norm2 with the flip left out
Norm2Unsigned(n4) == Sqrt(n4.x * n4.x + n4.y * n4.y + n4.z * n4.z)

\* norm2 = sqrt(pow(n4.x, 2) + pow(n4.y, 2) + pow(n4.z, 2)); if (n4.w < 0) norm2 *= -1;
Norm2(n4) ==
    LET norm2 == Sqrt(n4.x * n4.x + n4.y * n4.y + n4.z * n4.z)
    IN  IF n4.w < 0 THEN -norm2 ELSE norm2

\* n4.x /= norm2; n4.y /= norm2; n4.z /= norm2; n4.w /= norm2; return n4;
NormalizePlane(n4) ==
    LET norm2 == Norm2(n4)
    IN  make_float4(Div(n4.x, norm2), Div(n4.y, norm2), Div(n4.z, norm2), Div(n4.w, norm2))

PlaneInit == plane = <<>>

\* One more triangle is fitted: B is what solveZ returned for it
PlaneCall(fn, B) ==
    /\ Len(plane) < 2
    /\ plane' = Append(plane, [fn |-> fn, B |-> B,
                               n4 |-> NormalizePlane(make_float4(B[1], B[2], B[3], B[4]))])
    /\ UNCHANGED <<hpmVars, dmb, rescale, jbu, support, prior, ply, board, omp>>

-----------------------------------------------------------------------------
(* The contents of the planar prior buffers (HPM::CudaPlanarPriorInitialization *)
(* and HPM::ReloadPlanarPriorInitialization).  new float4[n] is not            *)
(* initialized: block is what the memory it returns holds, which may be planes *)
(* a buffer released earlier held.                                             *)

PriorInit ==
    prior = [pc |-> "none", width |-> 0, height |-> 0, masks |-> <<>>, planes |-> <<>>,
             block |-> <<>>, plane_masks_cuda |-> <<>>, prior_planes_cuda |-> <<>>]

\* The loops over i < width, j < height and the two cudaMemcpy; planes is PlaneParams,
\* indexed by mask id - 1, or prior_plane_parameters, indexed by pixel
PriorFill(fn, width, height, masks, planes, block) ==
    LET n == width * height
        plane_masks_host  == [center \in 0 .. n - 1 |-> masks[center \div width, center % width]]
        prior_planes_host ==
            [center \in 0 .. n - 1 |->
                LET m == masks[center \div width, center % width]
                IN  IF m > 0
                    THEN IF fn = "CudaPlanarPriorInitialization"
                         THEN planes[(m - 1) + 1]
                         ELSE planes[center + 1]
                    ELSE block[center]]
    IN  /\ prior.pc = "none"
        /\ prior' = [pc |-> fn, width |-> width, height |-> height, masks |-> masks,
                     planes |-> planes, block |-> block,
                     plane_masks_cuda |-> plane_masks_host,
                     prior_planes_cuda |-> prior_planes_host]
        /\ UNCHANGED <<hpmVars, dmb, rescale, jbu, support, plane, ply, board, omp>>

-----------------------------------------------------------------------------
(* Point cloud export (ExportPointCloud, StoreColorPlyFileBinaryPointCloud).   *)
(* A coordinate is a float as in the support point fields; the largest finite  *)
(* float and the infinities are the values below.                              *)

FLT_MAX == Val(100)
Infinity == Val(101)
Neg(a) == [a EXCEPT !.v = -@]

\* !(X.x < FLT_MAX && X.x > -FLT_MAX) || !(X.y < FLT_MAX && X.y > -FLT_MAX)
\*     || !(X.z < FLT_MAX && X.z >= -FLT_MAX)
Rejected(X) ==
    \/ ~(Lt(X.x, FLT_MAX) /\ Lt(Neg(FLT_MAX), X.x))
    \/ ~(Lt(X.y, FLT_MAX) /\ Lt(Neg(FLT_MAX), X.y))
    \/ ~(Lt(X.z, FLT_MAX) /\ (~X.z.nan /\ X.z.v >= Neg(FLT_MAX).v))

\* The coordinates written for a point
WrittenCoord(p) ==
    IF Rejected(p.coord) THEN [x |-> Val(0), y |-> Val(0), z |-> Val(0)] ELSE p.coord

PlyInit == ply = [pc |-> "none", points |-> <<>>, order |-> <<>>, file |-> <<>>]

\* One export of the points pc; order: the order in which the iterations of the
\* parallel loop enter the critical section.  The normals are in the file of
\* StoreColorPlyFileBinaryPointCloud only.
ExportCall(fn, pc, order) ==
    /\ ply.pc = "none"
    /\ ply' = [pc |-> fn, points |-> pc, order |-> order,
               file |-> [k \in 1 .. Len(pc) |->
                           LET p == pc[order[k]]
                           IN  [coord |-> WrittenCoord(p),
                                normal |-> IF fn = "ExportPointCloud" THEN <<>> ELSE p.normal,
                                color |-> <<p.color[3], p.color[2], p.color[1]>>]]]
    /\ UNCHANGED <<hpmVars, dmb, rescale, jbu, support, plane, prior, board, omp>>

-----------------------------------------------------------------------------
(* The parallel loop of the export (#pragma omp parallel for, #pragma omp      *)
(* critical).  Every iteration is run once by some thread of the team; a step  *)
(* is one fwrite.  An item of the file carries, next to its value, the point   *)
(* and the field it was written for and the thread that wrote it.              *)

\* threads of the team
MaxThreads == 2
\* points handed to one export
MaxPoints == 2

Threads == 1 .. MaxThreads

\* The fwrite calls of one iteration, in order
Record(fn, p) ==
    LET X == WrittenCoord(p)
    IN  <<X.x, X.y, X.z>>
        \o (IF fn = "ExportPointCloud" THEN <<>> ELSE p.normal)
        \o <<p.color[3], p.color[2], p.color[1]>>

NumFields(fn) == IF fn = "ExportPointCloud" THEN 6 ELSE 9

Idle == [at |-> "idle", i |-> 0, k |-> 0]

OmpInit ==
    omp = [pc |-> "none", points |-> <<>>, count |-> 0, todo |-> {},
           threads |-> [t \in Threads |-> Idle], lock |-> 0, file |-> <<>>,
           contended |-> FALSE, closed |-> FALSE]

\* fopen and the header: element vertex pc.size()
OpenPly(fn, pc) ==
    /\ omp.pc = "none"
    /\ omp' = [omp EXCEPT !.pc = fn, !.points = pc, !.count = Len(pc),
                          !.todo = 1 .. Len(pc)]
    /\ UNCHANGED <<hpmVars, dmb, rescale, jbu, support, plane, prior, ply, board>>

\* Thread t starts iteration i: the locals up to the critical section
TakeIteration(t, i) ==
    /\ omp.pc # "none" /\ ~omp.closed
    /\ omp.threads[t].at = "idle"
    /\ i \in omp.todo
    /\ omp' = [omp EXCEPT !.todo = @ \ {i},
                          !.threads[t] = [at |-> "ready", i |-> i, k |-> 0]]
    /\ UNCHANGED <<hpmVars, dmb, rescale, jbu, support, plane, prior, ply, board>>

\* The critical section is never seen as taken
CriticalNeverTaken == FALSE

\* #pragma omp critical: a thread is inside
CriticalTaken == omp.lock # 0

EnterCritical(t) ==
    /\ omp.threads[t].at = "ready"
    /\ ~CriticalTaken
    /\ omp' = [omp EXCEPT !.lock = t, !.threads[t].at = "critical"]
    /\ UNCHANGED <<hpmVars, dmb, rescale, jbu, support, plane, prior, ply, board>>

\* The next fwrite of thread t
WriteField(t) ==
    LET th == omp.threads[t]
        record == Record(omp.pc, omp.points[th.i])
    IN  /\ th.at = "critical"
        /\ th.k < NumFields(omp.pc)
        /\ omp' = [omp EXCEPT
                     !.file = Append(@, [point |-> th.i, field |-> th.k + 1,
                                         value |-> record[th.k + 1], thread |-> t]),
                     !.threads[t].k = th.k + 1,
                     !.contended = @ \/ \E u \in Threads \ {t} : omp.threads[u].at = "ready"]
        /\ UNCHANGED <<hpmVars, dmb, rescale, jbu, support, plane, prior, ply, board>>

\* Thread t leaves the critical section and ends its iteration
LeaveCritical(t) ==
    /\ omp.threads[t].at = "critical"
    /\ omp.threads[t].k = NumFields(omp.pc)
    /\ omp' = [omp EXCEPT !.lock = 0, !.threads[t] = Idle]
    /\ UNCHANGED <<hpmVars, dmb, rescale, jbu, support, plane, prior, ply, board>>

\* The end of the parallel region, then fclose
ClosePly ==
    /\ omp.pc # "none" /\ ~omp.closed
    /\ omp.todo = {}
    /\ \A t \in Threads : omp.threads[t].at = "idle"
    /\ omp' = [omp EXCEPT !.closed = TRUE]
    /\ UNCHANGED <<hpmVars, dmb, rescale, jbu, support, plane, prior, ply, board>>

-----------------------------------------------------------------------------
(* The propagation schedule.  The kernels are in HPM.cu; the schedule here is  *)
(* the one the specification describes: an iteration is two half-passes over   *)
(* the pixels of one colour of a checkerboard, each pixel gathering the        *)
(* hypotheses of its four adjacent pixels and then committing its own, the     *)
(* host blocking on every dispatch.  A hypothesis is the number of commits     *)
(* that produced it.                                                           *)

\* half-passes dispatched in one run
MaxPhases == 4

BoardPixels == (0 .. MaxDim - 1) \X (0 .. MaxDim)

\* The colour of a pixel: the half-pass that updates it
Colour(p) == (p[1] + p[2]) % 2

\* The adjacent pixels and the diagonal ones
NeighboursWithDiagonal(p) ==
    {n \in BoardPixels : n # p /\ n[1] - p[1] \in -1 .. 1 /\ n[2] - p[2] \in -1 .. 1}

\* The pixels a pixel gathers hypotheses from: the adjacent pixels of its row and column
Neighbours(p) ==
    {n \in BoardPixels :
        \/ n[1] = p[1] /\ n[2] - p[2] \in {-1, 1}
        \/ n[2] = p[2] /\ n[1] - p[1] \in {-1, 1}}

BoardInit ==
    board = [phase |-> 0, colour |-> 0,
             hypotheses |-> [p \in BoardPixels |-> 0],
             previous |-> [p \in BoardPixels |-> 0],
             at |-> [p \in BoardPixels |-> "waiting"],
             gathered |-> [p \in BoardPixels |-> <<>>]]

\* A pixel of the running half-pass reads its neighbours' hypotheses
Gather(p) ==
    /\ board.phase < MaxPhases
    /\ Colour(p) = board.colour
    /\ board.at[p] = "waiting"
    /\ board' = [board EXCEPT !.at[p] = "gathered",
                              !.gathered[p] = [n \in Neighbours(p) |-> board.hypotheses[n]]]
    /\ UNCHANGED <<hpmVars, dmb, rescale, jbu, support, plane, prior, ply, omp>>

\* The pixel writes the hypothesis it keeps
CommitPixel(p) ==
    /\ board.at[p] = "gathered"
    /\ board' = [board EXCEPT !.at[p] = "committed", !.hypotheses[p] = @ + 1]
    /\ UNCHANGED <<hpmVars, dmb, rescale, jbu, support, plane, prior, ply, omp>>

\* The dispatch returns when every pixel of the colour has committed; the host then
\* dispatches the half-pass of the other colour
NextPhase ==
    /\ \A p \in BoardPixels : Colour(p) = board.colour => board.at[p] = "committed"
    /\ board' = [board EXCEPT !.phase = @ + 1, !.colour = 1 - @,
                              !.previous = board.hypotheses,
                              !.at = [p \in BoardPixels |-> "waiting"]]
    /\ UNCHANGED <<hpmVars, dmb, rescale, jbu, support, plane, prior, ply, omp>>

-----------------------------------------------------------------------------
(* The HPM object from construction to destruction *)

\* HPM::HPM() {}: the mode flags start off; no pointer member holds an allocation
\* and num_images is not assigned.  The numeric members of params are written
\* before they are read.
HpmInit ==
    /\ params = [geom_consistency |-> FALSE, multi_geometry |-> FALSE,
                 hierarchy |-> FALSE, prior_consistency |-> FALSE,
                 mand_consistency |-> FALSE, upsample |-> FALSE,
                 max_iterations |-> 0, num_images |-> 0,
                 scaled_cols |-> 0, scaled_rows |-> 0,
                 depth_min |-> Rat(0), depth_max |-> Rat(0)]
    /\ num_images = -1
    /\ images = <<>>
    /\ cameras = <<>>
    /\ depths = <<>>
    /\ ptr = [f \in Fields |-> 0]
    /\ allocs = [f \in Fields |-> <<>>]
    /\ wild = {}
    /\ faults = {}
    /\ cuda_failed = FALSE
    /\ exited = FALSE
    /\ destroyed = FALSE
    /\ calls = 0
    /\ released = {}
    /\ requested = 0
    /\ loaded = 0

CamFile == [present |-> TRUE,
            K |-> <<Rat(7), Rat(0), Rat(3), Rat(0), Rat(5), Rat(2), Rat(0), Rat(0), Rat(1)>>,
            depth_min |-> 1, depth_max |-> 9]
NoCamFile == [present |-> FALSE, K |-> [i \in 1 .. 9 |-> Rat(0)],
              depth_min |-> 0, depth_max |-> 0]

\* A problem whose files all exist: n images of one size, none above cur_image_size,
\* each with a stored depth map of its size.
CompleteProblem(n, size) ==
    [img   |-> [k \in 1 .. n |-> size],
     cam   |-> [k \in 1 .. n |-> CamFile],
     size  |-> [k \in 1 .. n |-> MaxDim],
     depth |-> [k \in 1 .. n |-> size]]

\* The Camera locals of a call whose camera files all exist: what they held before
\* the read shows in none of the fields the model keeps
NoGarbage(n) == [k \in 1 .. n |-> CHOOSE g \in GarbageCameras : g.width = 0]

\* The problems of n images of one size in which only image bad may lack files
Problems(n, size, bad) ==
    {[img   |-> [k \in 1 .. n |-> IF k = bad THEN img ELSE size],
      cam   |-> [k \in 1 .. n |-> IF k = bad THEN cam ELSE CamFile],
      size  |-> [k \in 1 .. n |-> MaxDim],
      depth |-> [k \in 1 .. n |-> IF k = bad THEN depth ELSE size]] :
        img \in {EmptyImage, size}, cam \in {CamFile, NoCamFile}, depth \in {Missing, size}}

\* Result folders whose maps have one size and of which at most one kind is missing
Stored(size) ==
    {[depths      |-> IF gone = "depths" THEN Missing ELSE size,
      depths_geom |-> IF gone = "depths" THEN Missing ELSE size,
      normals     |-> IF gone = "normals" THEN Missing ELSE size,
      costs       |-> IF gone = "costs" THEN Missing ELSE size] :
        gone \in {"none", "depths", "normals", "costs"}}

\* A result folder holding every map at one size
StoredAt(size) ==
    [depths |-> size, depths_geom |-> size, normals |-> size, costs |-> size]

\* The CUDA calls of CudaSpaceInitialization that may fail
SpaceFailPoints ==
    {NoFail, Transfer, <<"cuArray", 0>>, <<"texture_objects_host", 0>>}
    \cup {F(d) : d \in {"texture_objects_cuda", "cameras_cuda", "plane_hypotheses_cuda",
                        "costs_cuda", "pre_costs_cuda", "rand_states_cuda",
                        "selected_views_cuda", "depths_cuda", "texture_depths_cuda",
                        "scaled_plane_hypotheses_cuda"}}

Init ==
    /\ HpmInit /\ DmbInit /\ RescaleInit /\ JbuInit
    /\ SupportInit /\ PlaneInit /\ PriorInit /\ PlyInit /\ BoardInit /\ OmpInit

Next ==
    \/ \E multi_geometry \in BOOLEAN : SetGeomConsistencyParams(multi_geometry)
    \/ SetHierarchyParams
    \/ SetPlanarPriorParams
    \/ \E flag \in BOOLEAN : SetMandConsistencyParams(flag)
    \/ \E n \in 1 .. MaxImages :
          InuputInitialization(CompleteProblem(n, Size(MaxDim, MaxDim)), NoGarbage(n))
    \/ TextureInformationInitialization(NoFail)
    \/ CudaSpaceInitialization(StoredAt(images[1]), NoFail)
    \/ CudaCannyInitialization(Size(cameras[1].height, cameras[1].width), NoFail)
    \/ CudaConfidenceInitialization(images[1], NoFail)
    \/ CudaPlanarPriorInitialization(NoFail)
    \/ ReloadPlanarPriorInitialization(NoFail)
    \/ CudaPlanarPriorRelease
    \/ \E geom_consistency \in BOOLEAN : CudaSpaceRelease(geom_consistency)
    \/ ReleaseProblemHostMemory
    \/ Destructor

\* The lifetime of one HPM object whose files all exist and whose CUDA calls succeed
Spec == Init /\ [][Next]_vars

\* The setters in any order around the loading of the inputs and the initialization
\* of the space, the one routine that writes params after them
NextModes ==
    \/ \E multi_geometry \in BOOLEAN : SetGeomConsistencyParams(multi_geometry)
    \/ SetHierarchyParams
    \/ SetPlanarPriorParams
    \/ \E flag \in BOOLEAN : SetMandConsistencyParams(flag)
    \/ InuputInitialization(CompleteProblem(1, Size(MaxDim, MaxDim)), NoGarbage(1))
    \/ CudaSpaceInitialization(StoredAt(images[1]), NoFail)
    \/ Destructor

SpecModes == Init /\ [][NextModes]_vars

\* Resource setup with a CUDA call that fails
NextFail ==
    \/ \E multi_geometry \in BOOLEAN : SetGeomConsistencyParams(multi_geometry)
    \/ SetHierarchyParams
    \/ InuputInitialization(CompleteProblem(1, Size(MaxDim, MaxDim)), NoGarbage(1))
    \/ \E failAt \in {NoFail, F("texture_cuda")} : TextureInformationInitialization(failAt)
    \/ \E failAt \in SpaceFailPoints :
          CudaSpaceInitialization(StoredAt(images[1]), failAt)
    \/ \E failAt \in {NoFail, F("Canny_cuda")} :
          CudaCannyInitialization(Size(cameras[1].height, cameras[1].width), failAt)
    \/ \E failAt \in {NoFail, Transfer} :
          CudaConfidenceInitialization(images[1], failAt)
    \/ \E failAt \in {NoFail, F("prior_planes_cuda")} : CudaPlanarPriorInitialization(failAt)
    \/ \E failAt \in {NoFail, F("plane_masks_cuda")} : ReloadPlanarPriorInitialization(failAt)

SpecFail == Init /\ [][NextFail]_vars

\* Resource setup over problems and result folders with missing files
NextFiles ==
    \/ \E multi_geometry \in BOOLEAN : SetGeomConsistencyParams(multi_geometry)
    \/ SetHierarchyParams
    \/ \E bad \in 1 .. MaxImages :
          \E problem \in Problems(MaxImages, Size(MaxDim, MaxDim), bad) :
             \E g \in IF problem.cam[bad].present THEN {NoGarbage(1)[1]} ELSE GarbageCameras :
                InuputInitialization(problem, [k \in 1 .. MaxImages |-> g])
    \/ \E stored \in Stored(Size(MaxDim, MaxDim)) : CudaSpaceInitialization(stored, NoFail)
    \/ \E confidence \in {Missing, Size(MaxDim, MaxDim)} :
          CudaConfidenceInitialization(confidence, NoFail)

SpecFiles == Init /\ [][NextFiles]_vars

\* The resolutions of a pyramid level, square or not
LevelSizes == {Size(r, c) : r \in 1 .. MaxDim, c \in 1 .. MaxDim}

\* One level of the hierarchy: the inputs are loaded, then the space is initialized
\* over the result the previous level stored
NextLevel ==
    \/ SetHierarchyParams
    \/ /\ calls = 0
       /\ \E size \in LevelSizes : InuputInitialization(CompleteProblem(1, size), NoGarbage(1))
    \/ \E previous \in LevelSizes : CudaSpaceInitialization(StoredAt(previous), NoFail)

SpecLevel == Init /\ [][NextLevel]_vars

\* What the uninitialized locals h, w, nb of a reader may hold
HeaderGarbage == {<<0, 0, 0>>, <<1, 1, 1>>, <<MaxDim, 1, 3>>}

\* A map is written to a file, something may happen to the file, and it is read into
\* a map that is empty or already holds a sample
NextDmb ==
    \/ \E kind \in {"depth", "normal"} : \E m \in Maps(Channels(kind)) : DmbWrite(kind, m)
    \/ \E d \in Damages : DmbDamage(d)
    \/ \E kind \in {"depth", "normal"} :
          \E out \in {EmptyMat(Channels(kind)), Zeros(1, 1, Channels(kind))} :
             \E garbage \in HeaderGarbage : DmbRead(kind, out, garbage)

SpecDmb == Init /\ [][NextDmb]_vars

\* Image sizes up to one more than MaxDim a side, the empty image included
ImageSizes == {Size(r, c) : r \in 1 .. MaxDim + 1, c \in 1 .. MaxDim + 1} \cup {EmptyImage}

\* Cameras as ReadCamera leaves them, from a file or from no file
ReadCameras ==
    {ReadCamera(CamFile, g) : g \in GarbageCameras} \cup GarbageCameras
    \cup {[K |-> [i \in 1 .. 9 |-> <<i, 2>>], width |-> 0, height |-> 0,
           depth_min |-> 2, depth_max |-> 3]}

\* An image is rescaled to the size of a depth map, or to fit cur_image_size; in the
\* scaling loop the camera has the width and height of its image.
NextRescale ==
    \/ \E src \in ImageSizes, depth \in ImageSizes, camera \in ReadCameras :
          RescaleCall(src, depth, camera)
    \/ \E image \in ImageSizes, camera \in ReadCameras, max_image_size \in 1 .. MaxDim + 1 :
          ScaleCall(image, [camera EXCEPT !.height = image.rows, !.width = image.cols],
                    max_image_size)

SpecRescale == Init /\ [][NextRescale]_vars

\* Coarse maps of up to MaxDim x MaxDim, all 1.0 or running through FloatBits
CoarseMaps(channels) ==
    {[rows |-> h, cols |-> w, channels |-> channels,
      data |-> Samples(h * w * channels, a, 1 - a)] :
        h \in 1 .. MaxDim, w \in 1 .. MaxDim, a \in 0 .. 1}

\* Guidance images of up to one more than MaxDim a side
GuideSizes == {Size(r, c) : r \in 1 .. MaxDim + 1, c \in 1 .. MaxDim + 1}

\* Kernel results for n pixels: no NaN, a NaN at one pixel, or NaN everywhere
KernelDepths(n) ==
    {[k \in 1 .. n |-> IF k = bad \/ bad = n + 1 THEN NaN ELSE One] : bad \in 0 .. n + 1}

KernelNormals(n) ==
    {[k \in 1 .. n |-> IF k = bad THEN <<NaN, NaN, NaN>> ELSE <<Zero, Zero, One>>] :
        bad \in {0, n}}

\* The maps a caller hands in to receive the result: empty, or of the image's size
Outputs(image, channels) == {EmptyMat(channels), Zeros(image.rows, image.cols, channels)}

\* One call of an upsampling function.  The coarse normal map has the size of the
\* coarse depth map.
NextJBU ==
    \/ \E image \in GuideSizes, src_depthmap \in CoarseMaps(1), failed \in BOOLEAN :
          \E depth_h \in KernelDepths(image.rows * image.cols), stray \in {NaN, One} :
             RunJBU(image, src_depthmap, depth_h, stray, failed)
    \/ \E image \in GuideSizes, src_depthmap \in CoarseMaps(1), failed \in BOOLEAN :
          \E src_normal \in {m \in CoarseMaps(3) : m.rows = src_depthmap.rows
                                                   /\ m.cols = src_depthmap.cols} :
             \E upsample_depthmap \in Outputs(image, 1), upsample_normal \in Outputs(image, 3) :
                \E depth_h \in KernelDepths(image.rows * image.cols),
                   normal_h \in KernelNormals(image.rows * image.cols) :
                   JointBilateralUpsampling_prior(image, src_depthmap, upsample_depthmap,
                                                  src_normal, upsample_normal,
                                                  depth_h, normal_h, failed)

SpecJBU == Init /\ [][NextJBU]_vars

\* A problem whose one image of up to MaxDim + 1 a side is loaded unscaled
LevelProblem(size) ==
    [CompleteProblem(1, size) EXCEPT !.size = [k \in 1 .. 1 |-> MaxDim + 1]]

\* The result folder of the reference image when the space of a level is initialized:
\* the previous level stored every map at its resolution, and RunJBU, called over
\* the level's image, rewrote depths.dmb at the image's resolution unless it returned
\* early
LevelResult(image, previous) ==
    [StoredAt(previous) EXCEPT
        !.depths = IF Imagescale(image, previous) = 1 THEN previous ELSE image]

\* One level of the pyramid after the coarsest: the image is loaded, RunJBU upsamples
\* the stored depth map of the previous, coarser or equal, level, and the space is
\* initialized
NextPyramid ==
    \/ SetHierarchyParams
    \/ /\ calls = 0
       /\ \E size \in GuideSizes : InuputInitialization(LevelProblem(size), NoGarbage(1))
    \/ /\ Len(images) > 0
       /\ \E previous \in LevelSizes :
             /\ previous.rows <= images[1].rows /\ previous.cols <= images[1].cols
             /\ CudaSpaceInitialization(LevelResult(images[1], previous), NoFail)

SpecPyramid == Init /\ [][NextPyramid]_vars

\* the longest side of a reference image handed to the support point selection
MaxSide == 6

\* Pixels: adjusted cost 0.05, 0.05 at raw cost 2.0, -0.15, 0.5, 0.5 at raw cost 2.5,
\* a NaN cost, a NaN confidence; each without and with texture
SupportSamples ==
    {[cost |-> p[1], confidence |-> p[2], texture |-> t] :
        p \in {<<Val(1), Val(0)>>, <<Val(40), Val(39)>>, <<Val(1), Val(4)>>,
               <<Val(10), Val(0)>>, <<Val(50), Val(40)>>,
               <<NotANumber, Val(0)>>, <<Val(1), NotANumber>>},
        t \in {Val(0), Val(20)}}

\* The pixels of adjusted cost 0.5
Backgrounds == {s \in SupportSamples : Sub(s.cost, s.confidence) = Val(10)}

\* A field in which the pixel visited at position posA of every tile is a, the one at
\* position posB is b and every other pixel is bg
SupportField(bg, a, b, posA, posB, width, height) ==
    [r \in 0 .. height - 1, c \in 0 .. width - 1 |->
        LET col == c - (c % step_size)
            row == r - (r % step_size)
            nr  == Min(height, row + step_size) - row
            n   == (Min(width, col + step_size) - col) * nr
            k   == (c - col) * nr + (r - row)
        IN  IF k = posA % n THEN a ELSE IF k = posB % n THEN b ELSE bg]

\* Reference cameras of 2, step_size or MaxSide pixels a side
SupportCameras ==
    {[width |-> w, height |-> h] : w \in {2, step_size, MaxSide}, h \in {2, step_size, MaxSide}}

NextSupport ==
    \E camera \in SupportCameras, hpm_factor \in {<<1, 1>>, <<1, 2>>} :
       \E bg \in Backgrounds, a \in SupportSamples, b \in SupportSamples :
          \E posA \in {0, step_size * step_size - 1} :
             SupportCall(camera, hpm_factor,
                         SupportField(bg, a, b, posA, 1,
                                      ScaledSide(camera.width, hpm_factor),
                                      ScaledSide(camera.height, hpm_factor)))

SpecSupport == Init /\ [][NextSupport]_vars

\* the largest offset of a solver result
MaxOffset == 2

\* Null vectors with a spatial part of length 1, 3 or 5, of either sign
NullVectors ==
    {<<s * n[1], s * n[2], s * n[3], d>> :
        n \in {<<0, 0, 1>>, <<1, 2, 2>>, <<0, 3, 4>>}, s \in {-1, 1},
        d \in -MaxOffset .. MaxOffset}

NextPlane ==
    \E fn \in {"GetPriorPlaneParams", "GetPriorPlaneParams_factor"}, B \in NullVectors :
       PlaneCall(fn, B)

SpecPlane == Init /\ [][NextPlane]_vars

\* Masks of a width x height camera with ids up to n, running through the ids from a
MaskFields(width, height, n) ==
    {[j \in 0 .. height - 1, i \in 0 .. width - 1 |-> (a + b * (j * width + i)) % (n + 1)] :
        a \in 0 .. n, b \in 0 .. n}

\* What the memory new float4[n] returns holds: junk, or the planes of an earlier pass
Blocks(n) == {[center \in 0 .. n - 1 |-> <<kind, center>>] : kind \in {"junk", "earlier"}}

\* PlaneParams of n fitted triangles, prior_plane_parameters of n pixels
FittedPlanes(kind, n) == [k \in 1 .. n |-> <<kind, k>>]

NextPrior ==
    \E width \in 1 .. MaxDim, height \in 1 .. MaxDim, n \in 1 .. 2 :
       \E masks \in MaskFields(width, height, n), block \in Blocks(width * height) :
          \/ PriorFill("CudaPlanarPriorInitialization", width, height, masks,
                       FittedPlanes("fitted", n), block)
          \/ PriorFill("ReloadPlanarPriorInitialization", width, height, masks,
                       FittedPlanes("reloaded", width * height), block)

SpecPrior == Init /\ [][NextPrior]_vars

\* Coordinates: NaN, the infinities, the largest finite floats and small values
Coordinates ==
    {NotANumber, Neg(Infinity), Neg(FLT_MAX), Val(-1), Val(0), Val(1), FLT_MAX, Infinity}

PointOf(x, y, z) ==
    [coord |-> [x |-> x, y |-> y, z |-> z], normal |-> <<0, 0, 1>>, color |-> <<1, 2, 3>>]

\* One point of any coordinates, alone or before or after a second, finite point
PointLists ==
    {<<PointOf(x, y, z)>> : x \in Coordinates, y \in Coordinates, z \in Coordinates}
    \cup {<<PointOf(x, x, z), PointOf(Val(1), Val(0), Val(-1))>> :
             x \in Coordinates, z \in Coordinates}

NextPly ==
    \E fn \in {"ExportPointCloud", "StoreColorPlyFileBinaryPointCloud"}, pc \in PointLists :
       \E order \in {o \in {<<1>>, <<1, 2>>, <<2, 1>>} : Len(o) = Len(pc)} :
          ExportCall(fn, pc, order)

SpecPly == Init /\ [][NextPly]_vars

\* Up to MaxPoints points that differ in every coordinate, at most one of them with a
\* NaN coordinate
ExportLists ==
    {[k \in 1 .. n |-> PointOf(IF k = bad THEN NotANumber ELSE Val(k), Val(0), Val(-k))] :
        n \in 1 .. MaxPoints, bad \in 0 .. 1}

NextOmp ==
    \/ \E fn \in {"ExportPointCloud", "StoreColorPlyFileBinaryPointCloud"} :
          \E pc \in ExportLists : OpenPly(fn, pc)
    \/ \E t \in Threads, i \in 1 .. MaxPoints : TakeIteration(t, i)
    \/ \E t \in Threads : EnterCritical(t)
    \/ \E t \in Threads : WriteField(t)
    \/ \E t \in Threads : LeaveCritical(t)
    \/ ClosePly

SpecOmp == Init /\ [][NextOmp]_vars

NextBoard ==
    \/ \E p \in BoardPixels : Gather(p)
    \/ \E p \in BoardPixels : CommitPixel(p)
    \/ NextPhase

SpecBoard == Init /\ [][NextBoard]_vars

\* ---------------------------------------------------------------------------
\* Resource lifetime
\* ---------------------------------------------------------------------------

\* C1: over a lifetime of an HPM object made of initialization routines, at most one
\* release routine and the destructor, under every combination of the mode flags,
\* no allocation is released more than once.
C1_NoDoubleRelease ==
    calls <= 2 => \A f \in Fields : \A k \in 1 .. Len(allocs[f]) : allocs[f][k] <= 1

\* C2: an initialization routine points no member at a new allocation while the
\* one it holds is unreleased, and once both release routines have run after the
\* last initialization routine and the object is destroyed, every allocation has
\* been released.
C2_NoLeak ==
    /\ calls = 1 => \A f \in Fields : \A k \in 1 .. Len(allocs[f]) :
                       allocs[f][k] = 0 => ptr[f] = k
    /\ (destroyed /\ released = {"CudaSpaceRelease", "CudaPlanarPriorRelease"}) =>
          \A f \in Fields : \A k \in 1 .. Len(allocs[f]) : allocs[f][k] >= 1

\* C3: a CUDA allocation or transfer that fails during resource setup terminates the
\* process: the object is never in a state where such a call failed and it runs on.
C3_FailureTerminates == cuda_failed => exited

\* ---------------------------------------------------------------------------
\* Missing files
\* ---------------------------------------------------------------------------

\* C6: a map whose read failed is treated as holding no data: no initialization
\* routine accesses an element of the empty map the failed read left behind.
C6_FailedReadNotAccessed == \A fault \in faults : fault[3] # "empty"

\* C7: after InuputInitialization the images and cameras lists hold one entry per
\* input whose image and camera files were both loaded, and none for a missing one.
C7_ListsHoldLoadedInputs == Len(images) = loaded /\ Len(cameras) = loaded

\* ---------------------------------------------------------------------------
\* The .dmb container
\* ---------------------------------------------------------------------------

\* C4: a depth map written by writeDepthDmb and read back by readDepthDmb, or a
\* normal map written by writeNormalDmb and read back by readNormalDmb, comes back
\* with return value 0, the same rows and cols and the same samples in the same order.
C4_RoundTrip ==
    (dmb.pc = "read" /\ dmb.intact /\ dmb.reader = dmb.writer) =>
        /\ dmb.ret = 0
        /\ dmb.map.rows = dmb.written.rows
        /\ dmb.map.cols = dmb.written.cols
        /\ dmb.map.channels = dmb.written.channels
        /\ dmb.map.data = dmb.written.data

\* A non-square normal map holding a NaN was written and read back into a map
\* that held something else
C4_Witness ==
    /\ dmb.pc = "read" /\ dmb.intact
    /\ dmb.writer = "normal" /\ dmb.reader = "normal"
    /\ dmb.written.rows = MaxDim /\ dmb.written.cols = 1
    /\ \E k \in 1 .. Len(dmb.written.data) : dmb.written.data[k] = NaN
    /\ dmb.before # EmptyMat(3)
    /\ dmb.map = dmb.written

\* A file a reader of maps with the given channel count should accept: the whole
\* header, format tag 1, that channel count, and exactly the samples the header declares
WellFormedDmb(file, channels) ==
    /\ file # NoFile
    /\ Len(file) >= 16
    /\ BytesToInt32(Item(file, 1)) = 1
    /\ BytesToInt32(Item(file, 2)) >= 0
    /\ BytesToInt32(Item(file, 3)) >= 0
    /\ BytesToInt32(Item(file, 4)) = channels
    /\ Len(file) = 16 + 4 * BytesToInt32(Item(file, 2)) * BytesToInt32(Item(file, 3)) * channels

\* C5: readDepthDmb and readNormalDmb return 0 for a well-formed file; for a missing
\* file, a short header, short sample data, a channel count of the other map type or
\* a format tag other than 1 they return -1 and leave the caller's map as it was.
C5_ReadersRejectBadFiles ==
    dmb.pc = "read" =>
        IF WellFormedDmb(dmb.file, Channels(dmb.reader))
        THEN dmb.ret = 0
        ELSE dmb.ret = -1 /\ dmb.map = dmb.before

\* ---------------------------------------------------------------------------
\* Rescaling
\* ---------------------------------------------------------------------------

\* a = b * num / den, for fractions a and b
ScaledBy(a, b, num, den) == a[1] * b[2] * den = b[1] * num * a[2]

\* C8: when RescaleImageAndCamera or a pass of the scaling loop resizes an image, the
\* camera ends with K[0] and K[2] multiplied by cols'/cols, K[4] and K[5] by rows'/rows,
\* the other entries of K as they were, and width and height those of the resized
\* image; when the image is not resized K is as it was.
C8_RescalingInvariant ==
    rescale.pc \in {"RescaleImageAndCamera", "InuputInitialization"} =>
        LET src == rescale.src
            img == rescale.image
            K0  == rescale.before.K
            K1  == rescale.camera.K
        IN  IF img = src
            THEN K1 = K0
            ELSE /\ ScaledBy(K1[1], K0[1], img.cols, src.cols)
                 /\ ScaledBy(K1[3], K0[3], img.cols, src.cols)
                 /\ ScaledBy(K1[5], K0[5], img.rows, src.rows)
                 /\ ScaledBy(K1[6], K0[6], img.rows, src.rows)
                 /\ \A i \in {2, 4, 7, 8, 9} : K1[i] = K0[i]
                 /\ rescale.camera.width = img.cols
                 /\ rescale.camera.height = img.rows

\* The scaling loop shrank an image by different factors in the two directions,
\* and K changed
C8_Witness ==
    /\ rescale.pc = "InuputInitialization"
    /\ rescale.src = Size(MaxDim, MaxDim + 1)
    /\ rescale.image.cols * rescale.src.rows # rescale.image.rows * rescale.src.cols
    /\ rescale.camera.K # rescale.before.K
    /\ rescale.before.K[5] # Rat(0)

\* ---------------------------------------------------------------------------
\* Upsampling
\* ---------------------------------------------------------------------------

HasNaN(m) == \E k \in 1 .. Len(m.data) : IsNaN(m.data[k])

\* C9: when a coarse map that holds no NaN is upsampled by a factor of at least 2,
\* whatever the kernel produced, no sample of the depth map RunJBU produces and no
\* sample of the depth and normal maps JointBilateralUpsampling_prior produces is NaN.
C9_NoNaNSurvives ==
    (/\ jbu.pc \in {"RunJBU", "JointBilateralUpsampling_prior"}
     /\ jbu.Imagescale >= 2
     /\ ~HasNaN(jbu.src_depthmap) /\ ~HasNaN(jbu.src_normal)
     /\ jbu.faults = {}) =>
        ~HasNaN(jbu.upsample_depthmap) /\ ~HasNaN(jbu.upsample_normal)

\* C10: when the guidance image has the resolution of the coarse map,
\* JointBilateralUpsampling_prior returns with upsample_depthmap equal to
\* src_depthmap and upsample_normal equal to src_normal, and RunJBU leaves
\* depths.dmb as it was.
C10_NoOpUpsampling ==
    (/\ jbu.scaled_image_float.rows = jbu.src_depthmap.rows
     /\ jbu.scaled_image_float.cols = jbu.src_depthmap.cols) =>
        /\ jbu.pc = "JointBilateralUpsampling_prior" =>
              /\ jbu.upsample_depthmap = jbu.src_depthmap
              /\ jbu.upsample_normal = jbu.src_normal
        /\ jbu.pc = "RunJBU" => jbu.file = jbu.stored

\* C11: for every guidance image at least as large as the coarse map in both
\* directions, RunJBU and JointBilateralUpsampling_prior take the early return if and
\* only if the guidance image has exactly the rows and cols of the coarse map.
C11_SkippedIffEqual ==
    (/\ jbu.pc \in {"RunJBU", "JointBilateralUpsampling_prior"}
     /\ jbu.scaled_image_float.rows >= jbu.src_depthmap.rows
     /\ jbu.scaled_image_float.cols >= jbu.src_depthmap.cols) =>
        (jbu.early <=> (/\ jbu.scaled_image_float.rows = jbu.src_depthmap.rows
                        /\ jbu.scaled_image_float.cols = jbu.src_depthmap.cols))

\* ---------------------------------------------------------------------------
\* Support point selection
\* ---------------------------------------------------------------------------

SupportCalled == support.pc = "GetSupportPoints_Classify_Check"

\* The pixels <<r, c>> of the k-th tile of the scanned field
TileSet(k) ==
    LET o == TileOrigins(support.width, support.height)[k]
    IN  {<<r, c>> \in (0 .. support.height - 1) \X (0 .. support.width - 1) :
            /\ o.row <= r /\ r < o.row + step_size
            /\ o.col <= c /\ c < o.col + step_size}

NumTiles == Len(TileOrigins(support.width, support.height))

\* cost minus confidence at a pixel
Adjusted(p) == Sub(support.costs[p[1], p[2]], support.confidences[p[1], p[2]])

\* The pixels of adjusted cost 0.05 of the k-th tile
LowPixels(k) == {p \in TileSet(k) : Adjusted(p) = Val(1)}

\* Every tile holds exactly one pixel of adjusted cost 0.05, all its others have 0.5
SyntheticField ==
    \A k \in 1 .. NumTiles :
        /\ Cardinality(LowPixels(k)) = 1
        /\ \A p \in TileSet(k) \ LowPixels(k) : Adjusted(p) = Val(10)

\* One point per tile, the pixel of adjusted cost 0.05
OnePointPerTile ==
    /\ Len(support.support2DPoints) = NumTiles
    /\ \A k \in 1 .. NumTiles :
          LET p == CHOOSE q \in LowPixels(k) : TRUE
          IN  support.support2DPoints[k] = Point(p[2], p[1])

\* C12 as stated: on every field in which each 5x5 tile holds exactly one pixel of
\* adjusted cost 0.05 and all its other pixels have adjusted cost 0.5, the routine
\* returns exactly one support point per tile, the 0.05 pixel, whatever the texture.
C12_AnySyntheticField == (SupportCalled /\ SyntheticField) => OnePointPerTile

\* C12 (amended): on every such field in which the 0.05 pixels have a raw cost below
\* 2.0, the routine returns exactly one support point per tile, the 0.05 pixel,
\* whatever the texture.
C12_OnePointPerTile ==
    (/\ SupportCalled
     /\ SyntheticField
     /\ \A k \in 1 .. NumTiles : \A p \in LowPixels(k) :
           Lt(support.costs[p[1], p[2]], MaxCost)) => OnePointPerTile

\* A textured synthetic field of four tiles, the low pixel the last one visited
C12_Witness ==
    /\ SupportCalled
    /\ SyntheticField
    /\ NumTiles = 4
    /\ Len(support.support2DPoints) = 4
    /\ support.support2DPoints[1] = Point(step_size - 1, step_size - 1)
    /\ \A p \in TileSet(1) : support.texture[p[1], p[2]] = Val(20)

\* C13: the routine emits at most two points per tile; every emitted point lies in
\* the tile that emitted it and in the image, its adjusted cost is below 0.1 and its
\* raw cost is below 2.0.
C13_EmittedPointsAreAccepted ==
    SupportCalled =>
        \A k \in 1 .. NumTiles :
            /\ Len(support.emitted[k]) <= 2
            /\ \A i \in 1 .. Len(support.emitted[k]) :
                  LET p == <<support.emitted[k][i].y, support.emitted[k][i].x>>
                  IN  /\ p \in TileSet(k)
                      /\ Lt(Adjusted(p), AcceptBelow)
                      /\ Lt(support.costs[p[1], p[2]], MaxCost)

\* A tile emitted two points while another pixel of it has a raw cost of 2.0
C13_Witness ==
    /\ SupportCalled
    /\ Len(support.emitted[1]) = 2
    /\ \E p \in TileSet(1) : support.costs[p[1], p[2]] = MaxCost

\* The pixels of the k-th tile the routine may choose, textured or not
Candidates(k, textured) ==
    {p \in TileSet(k) : /\ Lt(support.costs[p[1], p[2]], MaxCost)
                        /\ ~Adjusted(p).nan
                        /\ Lt(Textured, support.texture[p[1], p[2]]) = textured}

\* p has the lowest adjusted cost of the pixels in set
Lowest(p, set) == p \in set /\ \A q \in set : ~Lt(Adjusted(q), Adjusted(p))

\* C14: in every tile the candidate with the texture penalty is the pixel of lowest
\* adjusted cost among the pixels with texture > 0.5, and the candidate without it
\* is the pixel of lowest adjusted cost among the pixels with texture <= 0.5.
C14_CandidatesByTextureClass ==
    SupportCalled =>
        \A k \in 1 .. NumTiles :
            LET t == support.tiles[k]
            IN  /\ t.min_cost_texture # MaxCost =>
                      Lowest(<<t.temp_point_texture.y, t.temp_point_texture.x>>,
                             Candidates(k, TRUE))
                /\ t.min_cost_no_texture # MaxCost =>
                      Lowest(<<t.temp_point_no_texture.y, t.temp_point_no_texture.x>>,
                             Candidates(k, FALSE))

\* ---------------------------------------------------------------------------
\* Plane normalization
\* ---------------------------------------------------------------------------

\* The spatial part of the returned plane has length 1 and its offset is >= 0
Canonical(n4) ==
    /\ n4.x[2] = n4.y[2] /\ n4.y[2] = n4.z[2]
    /\ n4.x[1] * n4.x[1] + n4.y[1] * n4.y[1] + n4.z[1] * n4.z[1] = n4.x[2] * n4.x[2]
    /\ n4.w[1] >= 0

Opposite(B1, B2) == \A i \in 1 .. 4 : B1[i] = -B2[i]

\* C15 as stated: every returned plane has a spatial part of unit length and an
\* offset >= 0, and two solver results B and -B are returned as the same plane, also
\* when the offset of B is 0.
C15_CanonicalForAnyOffset ==
    /\ \A i \in 1 .. Len(plane) : Canonical(plane[i].n4)
    /\ \A i, j \in 1 .. Len(plane) :
          Opposite(plane[i].B, plane[j].B) => plane[i].n4 = plane[j].n4

\* C15 (amended): every returned plane has a spatial part of unit length and an
\* offset >= 0, and two solver results B and -B with a non-zero offset are returned as
\* the same plane.
C15_CanonicalForm ==
    /\ \A i \in 1 .. Len(plane) : Canonical(plane[i].n4)
    /\ \A i, j \in 1 .. Len(plane) :
          (Opposite(plane[i].B, plane[j].B) /\ plane[i].B[4] # 0) =>
              plane[i].n4 = plane[j].n4

\* B with a negative offset and -B were normalized, one by each function
C15_Witness ==
    /\ Len(plane) = 2
    /\ plane[1].fn # plane[2].fn
    /\ plane[1].B = <<1, 2, 2, -MaxOffset>>
    /\ Opposite(plane[1].B, plane[2].B)
    /\ plane[2].n4.w = <<MaxOffset, 3>>

\* ---------------------------------------------------------------------------
\* Planar prior buffers
\* ---------------------------------------------------------------------------

\* C16: after CudaPlanarPriorInitialization or ReloadPlanarPriorInitialization the
\* mask buffer holds masks(j, i) at j * width + i; a pixel of mask id m > 0 holds
\* PlaneParams[m - 1] (the pixel's own reloaded plane after a reload); a pixel of mask
\* 0 holds no plane of an earlier pass and no plane of this pass.
C16_PriorFieldMatchesMasks ==
    prior.pc # "none" =>
        \A j \in 0 .. prior.height - 1, i \in 0 .. prior.width - 1 :
            LET center == j * prior.width + i
                m      == prior.masks[j, i]
                value  == prior.prior_planes_cuda[center]
            IN  /\ prior.plane_masks_cuda[center] = m
                /\ (m > 0 /\ prior.pc = "CudaPlanarPriorInitialization") =>
                      value = prior.planes[m]
                /\ (m > 0 /\ prior.pc = "ReloadPlanarPriorInitialization") =>
                      value = prior.planes[center + 1]
                /\ m = 0 => value[1] \notin {"earlier", "fitted", "reloaded"}

\* ---------------------------------------------------------------------------
\* Hierarchy levels
\* ---------------------------------------------------------------------------

\* The hierarchy branch of CudaSpaceInitialization has run
HierarchyInitialized == ptr[F("scaled_plane_hypotheses_host")] # 0

\* C17: in hierarchy mode CudaSpaceInitialization leaves params.upsample false exactly
\* when the stored result of the previous level has the cols and rows of the
\* reference image, and otherwise leaves it true with scaled_cols and scaled_rows the
\* stored width and height; also for images that are not square.
C17_PassthroughIffSameResolution ==
    HierarchyInitialized =>
        LET previous == depths[Len(depths)]
        IN  IF previous.cols = images[1].cols /\ previous.rows = images[1].rows
            THEN ~params.upsample
            ELSE /\ params.upsample
                 /\ params.scaled_cols = previous.cols
                 /\ params.scaled_rows = previous.rows

\* ---------------------------------------------------------------------------
\* Point cloud export
\* ---------------------------------------------------------------------------

Finite(a) == ~a.nan /\ Lt(Neg(Infinity), a) /\ Lt(a, Infinity)

\* C18: every point with a coordinate that is NaN or an infinity is written with all
\* three coordinates 0, and every point whose coordinates are all finite is written
\* with its coordinates unchanged.
C18_ExportSanitizesNonFinite ==
    ply.pc # "none" =>
        \A k \in 1 .. Len(ply.file) :
            LET X == ply.points[ply.order[k]].coord
            IN  IF Finite(X.x) /\ Finite(X.y) /\ Finite(X.z)
                THEN ply.file[k].coord = X
                ELSE ply.file[k].coord = [x |-> Val(0), y |-> Val(0), z |-> Val(0)]

\* ---------------------------------------------------------------------------
\* Propagation schedule
\* ---------------------------------------------------------------------------

C20_DestructorFreesOnlyAllocated ==
    [][(~destroyed /\ destroyed') => wild' \subseteq wild]_vars

\* ---------------------------------------------------------------------------
\* Fallback lookup
\* ---------------------------------------------------------------------------

\* C21: when the guidance image is an integer factor of at least 2 larger than the
\* coarse map, every coordinate the NaN fallback of RunJBU and
\* JointBilateralUpsampling_prior reads lies inside the coarse map: no read of
\* src_depthmap falls outside it.
C21_FallbackInsideCoarseMap ==
    (/\ jbu.pc \in {"RunJBU", "JointBilateralUpsampling_prior"}
     /\ jbu.Imagescale >= 2
     /\ jbu.scaled_image_float.rows = jbu.Imagescale * jbu.src_depthmap.rows
     /\ jbu.scaled_image_float.cols = jbu.Imagescale * jbu.src_depthmap.cols) =>
        <<jbu.pc, "src_depthmap", "oob">> \notin jbu.faults

\* ---------------------------------------------------------------------------
\* Per-pixel fields
\* ---------------------------------------------------------------------------

\* C22: whatever the resolution of the stored maps and of the reference camera, also
\* when RunJBU returned early, CudaSpaceInitialization writes no index of
\* plane_hypotheses_host / costs_host at or above cameras[0].width * cameras[0].height
\* and reads no (row, col) outside the stored depth, normal or cost map.
C22_PerPixelAccessesInBounds ==
    \A fault \in faults :
        ~(/\ fault[1] \in {"CudaSpaceInitialization.geom", "CudaSpaceInitialization.hierarchy"}
          /\ fault[3] \in {"oob", "index"})

\* ---------------------------------------------------------------------------
\* Support point list
\* ---------------------------------------------------------------------------

\* C23: for any cost, confidence and texture field, the list
\* GetSupportPoints_Classify_Check returns holds no pixel coordinate twice.
C23_NoPixelTwice ==
    \A i, j \in 1 .. Len(support.support2DPoints) :
        i # j => support.support2DPoints[i] # support.support2DPoints[j]

\* ---------------------------------------------------------------------------
\* Parallel export
\* ---------------------------------------------------------------------------

\* C24: at every moment of every interleaving of the threads of ExportPointCloud /
\* StoreColorPlyFileBinaryPointCloud, the items written so far are whole records
\* followed by at most one partial record: each record holds the fields of one
\* point in order (position, the normal where it is written, colour) and no point has
\* two records; when the file is closed it holds exactly pc.size() records, the count
\* of the header, one for each input point.
C24_RecordsWholeAndComplete ==
    omp.pc # "none" =>
        LET nf == NumFields(omp.pc)
            n  == Len(omp.points)
            file == omp.file
        IN  /\ \A k \in 1 .. Len(file) :
                  /\ file[k].field = ((k - 1) % nf) + 1
                  /\ file[k].field > 1 => file[k].point = file[k - 1].point
                  /\ file[k].value = Record(omp.pc, omp.points[file[k].point])[file[k].field]
            /\ \A j, k \in 1 .. Len(file) :
                  (j # k /\ file[j].field = 1 /\ file[k].field = 1) =>
                      file[j].point # file[k].point
            /\ omp.closed =>
                  /\ Len(file) = n * nf
                  /\ omp.count = n
                  /\ \A i \in 1 .. n : \E k \in 1 .. Len(file) : file[k].point = i

\* Two points were exported by two threads, one thread waiting outside the critical
\* section while the other wrote, and the second point's record came first
C24_Witness ==
    /\ omp.closed
    /\ omp.contended
    /\ Len(omp.points) = 2
    /\ omp.file[1].point = 2
    /\ omp.file[1].thread # omp.file[Len(omp.file)].thread

\* ---------------------------------------------------------------------------
\* Mode flags
\* ---------------------------------------------------------------------------

\* C25: no step of the object, and so no setter call, takes geom_consistency,
\* multi_geometry, hierarchy or prior_consistency from true to false
\* (SetGeomConsistencyParams(false) leaves a true multi_geometry true), and after
\* every step multi_geometry implies geom_consistency; a step that takes a flag
\* from true to false takes mand_consistency.
C25_ModeFlagsMonotone ==
    [][/\ params.geom_consistency => params'.geom_consistency
       /\ params.multi_geometry => params'.multi_geometry
       /\ params.hierarchy => params'.hierarchy
       /\ params.prior_consistency => params'.prior_consistency
       /\ params'.multi_geometry => params'.geom_consistency]_vars

\* Every monotone flag has been set, multi_geometry with it, the space has been
\* initialized, and mand_consistency is off: the state SetGeomConsistencyParams(false)
\* and SetMandConsistencyParams(false) are called in and return in
C25_Witness ==
    /\ params.geom_consistency /\ params.multi_geometry /\ params.max_iterations = 2
    /\ params.hierarchy /\ params.prior_consistency
    /\ ~params.mand_consistency
    /\ calls > 0 /\ ~destroyed

====
